---- MODULE Spec2Model ----
(***************************************************************************)
(* Train / predict lifecycle of the stock sentiment platform backend:      *)
(*   app/api/routes_sentiment.py          the two HTTP handlers            *)
(*   app/services/market_data_service.py  the price fetch                  *)
(*   app/services/feature_service.py      add_price_features               *)
(*   app/services/training_frame_service.py  build_training_frame          *)
(*   app/services/model_service.py        train_model / predict_next       *)
(*                                                                         *)
(* Strings that the code trims, upper-cases or compares are sequences of   *)
(* characters.  A DataFrame is a record [cols, rows, levels]: cols is the  *)
(* sequence of column labels, rows the sequence of rows in frame order,    *)
(* each row a function from the labels to cells, levels the depth of the   *)
(* column index.  A column label is a record                               *)
(* [base, sfx]: the name <base> when sfx is empty, <base>_<suffix> when    *)
(* sfx = <<suffix>>.  A numeric cell is a record [k, n, d, w]: NaN, the    *)
(* rational n/d, or the sample standard deviation of the window w.         *)
(***************************************************************************)
EXTENDS Integers, Sequences, FiniteSets, TLC

\* ------------------------------------------------------------------ bounds
\* Request dates are the days 1..MaxDate.
MaxDate == 4
\* Service-level calls that may overlap in the concurrent specification.
MaxTrainCalls == 2
\* Rows of the longer ticker in the frames handed to build_training_frame.
MaxRows == 3
\* Rows of the longer ticker in the frames handed to add_price_features.
MaxSeries == 6

\* A function or sequence with its values computed once, when it is built
\* (the value is f itself).
Strict(f) == f @@ <<>>

\* ----------------------------------------------------------------- strings
Range(s) == {s[i] : i \in 1..Len(s)}

\* str.upper() on the characters the model uses
UpperChar(c) == CASE c = "a" -> "A" [] c = "b" -> "B" [] OTHER -> c

Upper(s) == Strict([i \in 1..Len(s) |-> UpperChar(s[i])])

RECURSIVE LStrip(_)
LStrip(s) == IF Len(s) > 0 /\ Head(s) = " " THEN LStrip(Tail(s)) ELSE s

RECURSIVE RStrip(_)
RStrip(s) == IF Len(s) > 0 /\ s[Len(s)] = " " THEN RStrip(SubSeq(s, 1, Len(s) - 1)) ELSE s

\* str.strip()
Strip(s) == RStrip(LStrip(s))

\* code point order of the characters, for sort_values on the ticker column
CharRank(c) == CASE c = " " -> 0 [] c = "A" -> 1 [] c = "B" -> 2 [] c = "a" -> 3 [] OTHER -> 4

RECURSIVE StrLess(_, _)
StrLess(a, b) ==
    IF Len(b) = 0 THEN FALSE
    ELSE IF Len(a) = 0 THEN TRUE
    ELSE IF CharRank(Head(a)) # CharRank(Head(b)) THEN CharRank(Head(a)) < CharRank(Head(b))
    ELSE StrLess(Tail(a), Tail(b))

\* ------------------------------------------------------------------- cells
NaN == [k |-> "nan", n |-> 0, d |-> 1, w |-> <<>>]

RECURSIVE Gcd(_, _)
Gcd(a, b) == IF b = 0 THEN a ELSE Gcd(b, a % b)

Abs(x) == IF x < 0 THEN -x ELSE x

\* the rational n/d in lowest terms, d > 0
Rat(n, d) == LET g == Gcd(Abs(n), Abs(d))
                 s == IF d < 0 THEN -1 ELSE 1
             IN [k |-> "num", n |-> (s * n) \div g, d |-> (s * d) \div g, w |-> <<>>]

Num(n) == [k |-> "num", n |-> n, d |-> 1, w |-> <<>>]

IsNaN(c) == c.k = "nan"

\* Series.fillna(0.0) on one cell
FillNa(c) == IF IsNaN(c) THEN Num(0) ELSE c

\* a > b on float cells; a comparison with NaN is False
Greater(a, b) == /\ a.k = "num"
                 /\ b.k = "num"
                 /\ a.n * b.d > b.n * a.d

\* ------------------------------------------------------------ column labels
Col(name) == [base |-> name, sfx |-> <<>>]

Sfx(name, t) == [base |-> name, sfx |-> <<t>>]

cTicker == Col("ticker")
cDate == Col("date")
cClose == Col("Close")
cVolume == Col("Volume")
cTarget == Col("target_up")

cRet1 == Col("ret_1d")
cRet5 == Col("ret_5d")
cVol5 == Col("vol_5d")
cVol21 == Col("vol_21d")
cVolZ == Col("volume_z")
cDow == Col("day_of_week")

\* str.lower() on the column base names the model uses
LowerBase(b) == CASE b \in {"Close", "CLOSE", "close"} -> "close"
                  [] b \in {"Volume", "VOLUME", "volume"} -> "volume"
                  [] OTHER -> b

\* ------------------------------------------------------------------ frames
Frame(cols, rows) == [cols |-> cols, rows |-> rows, levels |-> 1]

HasCol(df, c) == c \in Range(df.cols)

IsEmpty(df) == Len(df.rows) = 0

\* the order of sort_values(["ticker", "date"]) when byTicker, of sort_values("date") otherwise
RowLess(a, b, byTicker) ==
    IF byTicker /\ a[cTicker] # b[cTicker]
    THEN StrLess(a[cTicker], b[cTicker])
    ELSE a[cDate] < b[cDate]

RECURSIVE InsertRow(_, _, _)
InsertRow(r, sorted, byTicker) ==
    IF Len(sorted) = 0 THEN <<r>>
    ELSE IF RowLess(r, Head(sorted), byTicker) THEN <<r>> \o sorted
    ELSE <<Head(sorted)>> \o InsertRow(r, Tail(sorted), byTicker)

RECURSIVE SortRows(_, _)
SortRows(rows, byTicker) ==
    IF Len(rows) = 0 THEN <<>>
    ELSE InsertRow(rows[Len(rows)], SortRows(SubSeq(rows, 1, Len(rows) - 1), byTicker), byTicker)

\* the values of one column, in row order
Column(rows, c) == Strict([i \in 1..Len(rows) |-> rows[i][c]])

\* a row with one more column (or one column overwritten)
WithCell(r, c, v) == (c :> v) @@ r

AddCol(cols, c) == IF c \in Range(cols) THEN cols ELSE Append(cols, c)

DropCol(cols, c) == SelectSeq(cols, LAMBDA x : x # c)

\* --------------------------------------------------------------- the market
\* The price vendor, as the process sees it: for each listed ticker the closes
\* and volumes of the trading days 1, 2, ...; wide tells whether the vendor
\* library answers with two-level columns (Close, <TICKER>).
KnownTickers == {<<"A">>, <<"B">>}

Mkt(wide, ca, va, cb, vb) ==
    [wide |-> wide,
     close |-> [t \in KnownTickers |-> IF t = <<"A">> THEN ca ELSE cb],
     volume |-> [t \in KnownTickers |-> IF t = <<"A">> THEN va ELSE vb]]

\* The vendors the model is checked against: B unlisted in effect (no rows);
\* both tickers with three days; missing closes; two-level answers with
\* missing closes and volumes; B listed a day less than A.
Markets ==
    { Mkt(FALSE, <<Num(1), Num(2), Num(1)>>, <<Num(5), Num(5), Num(7)>>, <<>>, <<>>),
      Mkt(FALSE, <<Num(1), Num(2), Num(1)>>, <<Num(5), Num(6), Num(7)>>,
                 <<Num(2), Num(1), Num(2)>>, <<Num(3), NaN, Num(0)>>),
      Mkt(FALSE, <<Num(1), NaN, Num(2)>>, <<NaN, NaN, NaN>>, <<Num(2)>>, <<Num(1)>>),
      Mkt(TRUE, <<NaN, NaN, Num(1)>>, <<NaN, NaN, NaN>>,
                <<Num(1), Num(2), Num(2)>>, <<Num(3), Num(4), Num(3)>>),
      Mkt(FALSE, <<Num(1), Num(2), Num(1)>>, <<Num(5), Num(6), Num(7)>>,
                 <<Num(2), Num(1)>>, <<Num(3), Num(3)>>) }

\* The rows the vendor returns for one ticker and the window start..end (the
\* vendor's end is exclusive); nothing for a ticker it does not list.
\* Open, High and Low are carried by the code but never read, and are left out.
TickerRows(market, t, start, end) ==
    IF t \notin KnownTickers THEN <<>>
    ELSE LET last == IF end - 1 < Len(market.close[t]) THEN end - 1 ELSE Len(market.close[t])
             n == IF last < start THEN 0 ELSE last - start + 1
             close == IF market.wide THEN Sfx("Close", t) ELSE cClose
             volume == IF market.wide THEN Sfx("Volume", t) ELSE cVolume
         IN Strict([i \in 1..n |->
               LET day == start + i - 1
               IN (cTicker :> t) @@ (cDate :> day) @@ (close :> market.close[t][day])
                    @@ (volume :> market.volume[t][day])])

\* pd.concat of a frame's rows under the union of the columns: NaN where a row has no value
Reindex(rows, cols) ==
    Strict([i \in 1..Len(rows) |->
        Strict([c \in Range(cols) |-> IF c \in DOMAIN rows[i] THEN rows[i][c] ELSE NaN])])

RECURSIVE ConcatCols(_)
ConcatCols(frames) ==
    IF Len(frames) = 0 THEN <<>>
    ELSE LET rest == ConcatCols(SubSeq(frames, 1, Len(frames) - 1))
             new == SelectSeq(frames[Len(frames)].cols, LAMBDA c : c \notin Range(rest))
         IN rest \o new

RECURSIVE ConcatRows(_)
ConcatRows(frames) ==
    IF Len(frames) = 0 THEN <<>>
    ELSE ConcatRows(SubSeq(frames, 1, Len(frames) - 1)) \o frames[Len(frames)].rows

\* fetch_prices_for_tickers: one vendor frame per ticker, the empty ones dropped,
\* the rest concatenated and sorted by (ticker, date)
FetchPrices(market, tickers, start, end) ==
    LET one(t) ==
            [cols |-> IF market.wide
                      THEN <<cTicker, cDate, Sfx("Close", t), Sfx("Volume", t)>>
                      ELSE <<cTicker, cDate, cClose, cVolume>>,
             rows |-> TickerRows(market, t, start, end),
             levels |-> IF market.wide THEN 2 ELSE 1]
        frames == SelectSeq(Strict([i \in 1..Len(tickers) |-> one(tickers[i])]),
                            LAMBDA f : Len(f.rows) > 0)
    IN IF Len(frames) = 0
       THEN [cols |-> <<cTicker, cDate, cClose, cVolume>>, rows |-> <<>>, levels |-> 1]
       ELSE LET cols == ConcatCols(frames)
            IN [cols |-> cols,
                rows |-> SortRows(Reindex(ConcatRows(frames), cols), TRUE),
                levels |-> frames[1].levels]

\* ------------------------------------------------------------------ errors
\* An exception message or a response detail: the pieces of its text in order,
\* "{n}", "{ticker}" or "{missing}" standing where the number, the string or
\* the column names are formatted into it.
Msg(text) == [n |-> 0, t |-> <<>>, cols |-> {}, text |-> text]

MsgN(text, n) == [n |-> n, t |-> <<>>, cols |-> {}, text |-> text]

MsgT(text, t) == [n |-> 0, t |-> t, cols |-> {}, text |-> text]

MsgCols(text, cols) == [n |-> 0, t |-> <<>>, cols |-> cols, text |-> text]

\* f"Not enough rows to train a model (n={n}). Need at least 2."
NotEnoughRows(n) == MsgN(<<"Not enough rows to train a model (n=", "{n}", "). Need at least 2.">>, n)

NoFrame == Frame(<<>>, <<>>)

Raise(exc, msg) == [df |-> NoFrame, exc |-> exc, msg |-> msg, ok |-> FALSE]

Return(df) == [df |-> df, exc |-> "", msg |-> Msg(<<>>), ok |-> TRUE]

\* -------------------------------------------------------- feature_service
Inf(sign) == [k |-> "inf", n |-> sign, d |-> 1, w |-> <<>>]

\* Series.pct_change(periods = p, fill_method = None) at position i
PctChange(series, i, p) ==
    IF i <= p THEN NaN
    ELSE LET a == series[i]
             b == series[i - p]
         IN IF a.k # "num" \/ b.k # "num" THEN NaN
            ELSE IF b.n = 0 THEN (IF a.n = 0 THEN NaN ELSE Inf(IF a.n > 0 THEN 1 ELSE -1))
            ELSE Rat(a.n * b.d - a.d * b.n, a.d * b.n)

\* the non-null values of the window of `win` positions that ends at i
Window(series, i, win) ==
    LET lo == IF i - win + 1 < 1 THEN 1 ELSE i - win + 1
    IN SelectSeq(SubSeq(series, lo, i), LAMBDA c : ~IsNaN(c))

AllEqual(vals) == \A i \in 1..Len(vals) : vals[i] = vals[1]

\* Series.rolling(window = win, min_periods = 1).std() at position i: the sample
\* standard deviation (ddof = 1), so NaN on fewer than 2 observations
RollingStd(series, i, win) ==
    LET vals == Window(series, i, win)
    IN IF Len(vals) < 2 THEN NaN
       ELSE IF \E j \in 1..Len(vals) : vals[j].k # "num" THEN NaN
       ELSE IF AllEqual(vals) THEN Num(0)
       ELSE [k |-> "std", n |-> 0, d |-> 1, w |-> vals]

RECURSIVE SumNum(_)
SumNum(vals) ==
    IF Len(vals) = 0 THEN Num(0)
    ELSE LET r == SumNum(Tail(vals))
             h == Head(vals)
         IN Rat(h.n * r.d + r.n * h.d, h.d * r.d)

\* (vol - rolling mean) / rolling std over 21 rows, then inf -> NaN -> 0.0
VolumeZ(series, i) ==
    LET vals == Window(series, i, 21)
        sd == RollingStd(series, i, 21)
        sum == SumNum(vals)
        v == series[i]
    IN IF IsNaN(v) \/ IsNaN(sd) THEN Num(0)
       ELSE IF sd = Num(0) THEN Num(0)
       ELSE IF v.n * sum.d * Len(vals) = sum.n * v.d THEN Num(0)
       ELSE [k |-> "zscore", n |-> 0, d |-> 1, w |-> vals]

\* date.dayofweek, day 1 being a Monday
DayOfWeek(day) == (day - 1) % 7

\* _feat_group on the rows of one ticker
FeatGroup(g) ==
    LET rows == SortRows(g, FALSE)
        close == Column(rows, cClose)
        ret1 == Strict([i \in 1..Len(rows) |-> PctChange(close, i, 1)])
        volCol == IF Len(rows) > 0 /\ cVolume \in DOMAIN rows[1] THEN <<cVolume>>
                  ELSE IF Len(rows) > 0 /\ Col("volume") \in DOMAIN rows[1] THEN <<Col("volume")>>
                  ELSE <<>>
        feat(i, c) ==
            IF c = cRet1 THEN ret1[i]
            ELSE IF c = cRet5 THEN PctChange(close, i, 5)
            ELSE IF c = cVol5 THEN RollingStd(ret1, i, 5)
            ELSE IF c = cVol21 THEN RollingStd(ret1, i, 21)
            ELSE IF c = cVolZ
                 THEN (IF Len(volCol) = 0 THEN NaN ELSE VolumeZ(Column(rows, volCol[1]), i))
            ELSE Num(DayOfWeek(rows[i][cDate]))
        new == {cRet1, cRet5, cVol5, cVol21, cVolZ, cDow}
    IN Strict([i \in 1..Len(rows) |-> Strict([c \in new |-> feat(i, c)]) @@ rows[i]])

FeatureCols == <<cRet1, cRet5, cVol5, cVol21, cVolZ, cDow>>

\* a _build_from_suffixed that compares suffix and ticker as they are written
BuildFromSuffixedExact(df, baseName) ==
    IF HasCol(df, Col(baseName)) THEN [df |-> df, found |-> TRUE]
    ELSE LET cand == SelectSeq(df.cols,
                        LAMBDA c : LowerBase(c.base) = LowerBase(baseName) /\ Len(c.sfx) > 0)
             keys == {cand[i].sfx[1] : i \in 1..Len(cand)}
             src(key) == LET is == {i \in 1..Len(cand) : cand[i].sfx[1] = key}
                         IN cand[CHOOSE i \in is : \A j \in is : j <= i]
             value(r) == IF r[cTicker] \in keys THEN r[src(r[cTicker])] ELSE NaN
             built == Strict([i \in 1..Len(df.rows) |->
                                WithCell(df.rows[i], Col(baseName), value(df.rows[i]))])
         IN IF Len(cand) = 0 \/ ~HasCol(df, cTicker) THEN [df |-> df, found |-> FALSE]
            ELSE IF \A i \in 1..Len(built) : IsNaN(built[i][Col(baseName)])
                 THEN [df |-> df, found |-> FALSE]
            ELSE [df |-> [df EXCEPT !.cols = Append(df.cols, Col(baseName)), !.rows = built],
                  found |-> TRUE]

\* _build_from_suffixed: [found, df]; df is changed only when the column is built
BuildFromSuffixed(df, baseName) ==
    IF HasCol(df, Col(baseName)) THEN [df |-> df, found |-> TRUE]
    ELSE LET cand == SelectSeq(df.cols,
                        LAMBDA c : LowerBase(c.base) = LowerBase(baseName) /\ Len(c.sfx) > 0)
             keys == {Upper(cand[i].sfx[1]) : i \in 1..Len(cand)}
             \* a later column overwrites an earlier one under the same key
             src(key) == LET is == {i \in 1..Len(cand) : Upper(cand[i].sfx[1]) = key}
                         IN cand[CHOOSE i \in is : \A j \in is : j <= i]
             value(r) == IF Upper(r[cTicker]) \in keys THEN r[src(Upper(r[cTicker]))] ELSE NaN
             built == Strict([i \in 1..Len(df.rows) |->
                                WithCell(df.rows[i], Col(baseName), value(df.rows[i]))])
         IN IF Len(cand) = 0 \/ ~HasCol(df, cTicker) THEN [df |-> df, found |-> FALSE]
            ELSE IF \A i \in 1..Len(built) : IsNaN(built[i][Col(baseName)])
                 THEN [df |-> df, found |-> FALSE]
            ELSE [df |-> [df EXCEPT !.cols = Append(df.cols, Col(baseName)), !.rows = built],
                  found |-> TRUE]

\* DataFrame.rename(columns = {from: to})
RenameCol(df, from, to) ==
    [df EXCEPT !.cols = Strict([i \in 1..Len(df.cols) |->
                                   IF df.cols[i] = from THEN to ELSE df.cols[i]]),
               !.rows = Strict([i \in 1..Len(df.rows) |->
                            Strict([c \in ((DOMAIN df.rows[i]) \ {from}) \cup {to} |->
                                IF c = to THEN df.rows[i][from] ELSE df.rows[i][c]])])]

RECURSIVE Distinct(_)
Distinct(seq) ==
    IF Len(seq) = 0 THEN <<>>
    ELSE LET rest == Distinct(SubSeq(seq, 1, Len(seq) - 1))
         IN IF seq[Len(seq)] \in Range(rest) THEN rest ELSE Append(rest, seq[Len(seq)])

RECURSIVE FlatMap(_, _)
FlatMap(keys, rows) ==
    IF Len(keys) = 0 THEN <<>>
    ELSE FeatGroup(SelectSeq(rows, LAMBDA r : r[cTicker] = Head(keys))) \o FlatMap(Tail(keys), rows)

\* df.replace([inf, -inf], nan)
ReplaceInf(rows) ==
    Strict([i \in 1..Len(rows) |->
        Strict([c \in DOMAIN rows[i] |->
            IF c \notin {cTicker, cDate} /\ rows[i][c].k = "inf" THEN NaN ELSE rows[i][c]])])

\* add_price_features, lines 169-172: a "Ticker" or "Date" column takes the
\* lower-case name when no column has it yet
NormaliseCol(df, name, c) ==
    IF ~HasCol(df, c) /\ HasCol(df, Col(name)) THEN RenameCol(df, Col(name), c) ELSE df

\* _feat_group applied to the frame as one group
FeaturesUngrouped(sorted) == FeatGroup(sorted)

\* add_price_features, line 203: _feat_group applied to the rows of each ticker
FeaturesOfGroups(sorted) == FlatMap(Distinct(Column(sorted, cTicker)), sorted)

\* add_price_features, lines 199-211: sorted, the features added, inf replaced
FeaturesOfPriced(df) ==
    Return([cols |-> df.cols \o SelectSeq(FeatureCols, LAMBDA c : ~HasCol(df, c)),
            rows |-> ReplaceInf(FeaturesOfGroups(SortRows(df.rows, TRUE))),
            levels |-> 1])

\* add_price_features, lines 193-196: a volume column is looked for among the
\* suffixed ones when there is none
WithVolume(df) ==
    IF ~HasCol(df, cVolume) /\ ~HasCol(df, Col("volume"))
    THEN BuildFromSuffixed(df, "Volume").df ELSE df

\* an add_price_features that also requires a volume column
FeaturesOfCloseWithVolume(close) ==
    IF ~close.found /\ ~HasCol(close.df, cClose)
    THEN Raise("ValueError", MsgCols(<<"add_price_features: missing required columns: ", "{missing}">>,
                                     {"Close"}))
    ELSE IF ~HasCol(WithVolume(close.df), cVolume) /\ ~HasCol(close.df, Col("volume"))
    THEN Raise("ValueError", MsgCols(<<"add_price_features: missing required columns: ", "{missing}">>,
                                     {"Volume"}))
    ELSE FeaturesOfPriced(WithVolume(close.df))

\* add_price_features, lines 183-190, close being what _build_from_suffixed did
FeaturesOfClose(close) ==
    IF ~close.found /\ ~HasCol(close.df, cClose)
    THEN Raise("ValueError", MsgCols(<<"add_price_features: missing required columns: ", "{missing}">>,
                                     {"Close"}))
    ELSE FeaturesOfPriced(WithVolume(close.df))

\* add_price_features, lines 175-183: the check of the ticker and date columns
FeaturesOfNamed(df) ==
    LET missing == {c \in {cTicker, cDate} : ~HasCol(df, c)}
    IN IF missing # {}
       THEN Raise("ValueError", MsgCols(<<"add_price_features: missing required columns: ", "{missing}">>,
                                        {c.base : c \in missing}))
       ELSE FeaturesOfClose(BuildFromSuffixed(df, "Close"))

\* add_price_features.  The frames it is given here carry a default row index,
\* and two-level columns never share one top-level label (ticker and date are
\* always among them), so the index step and the single-top-level flattening
\* do not apply.
AddPriceFeatures(df0) ==
    IF IsEmpty(df0)
    THEN Raise("ValueError", Msg(<<"add_price_features: received empty price DataFrame">>))
    ELSE FeaturesOfNamed(NormaliseCol(NormaliseCol([df0 EXCEPT !.levels = 1], "Ticker", cTicker),
                                      "Date", cDate))

\* -------------------------------------------------- training_frame_service
\* a labelling that shifts the Close column without grouping by ticker
LabelledRowsUngrouped(df) ==
    LET out == SortRows(df.rows, TRUE)
        nextClose(i) == IF i < Len(out) THEN out[i + 1][cClose] ELSE NaN
        keep == {i \in 1..Len(out) : ~IsNaN(nextClose(i))}
        labelled == Strict([i \in 1..Len(out) |->
                       WithCell(out[i], cTarget,
                                IF Greater(nextClose(i), out[i][cClose]) THEN Num(1) ELSE Num(0))])
        pos(j) == CHOOSE i \in keep : Cardinality({x \in keep : x <= i}) = j
    IN Strict([j \in 1..Cardinality(keep) |-> labelled[pos(j)]])

\* build_training_frame, lines 25-34: the rows sorted by (ticker, date), each
\* labelled with the direction of the next close of its ticker, those without
\* a next close dropped
LabelledRows(df) ==
    LET out == SortRows(df.rows, TRUE)
        \* groupby("ticker")["Close"].shift(-1)
        nextClose(i) == IF i < Len(out) /\ out[i + 1][cTicker] = out[i][cTicker]
                        THEN out[i + 1][cClose] ELSE NaN
        keep == {i \in 1..Len(out) : ~IsNaN(nextClose(i))}
        labelled == Strict([i \in 1..Len(out) |->
                       WithCell(out[i], cTarget,
                                IF Greater(nextClose(i), out[i][cClose]) THEN Num(1) ELSE Num(0))])
        pos(j) == CHOOSE i \in keep : Cardinality({x \in keep : x <= i}) = j
    IN Strict([j \in 1..Cardinality(keep) |-> labelled[pos(j)]])

\* build_training_frame, lines 38-41, on the labelled rows
NonEmptyFrame(cols, rows) ==
    IF Len(rows) = 0
    THEN Raise("ValueError", Msg(<<"No rows available to build training frame.">>))
    ELSE Return(Frame(cols, rows))

\* build_training_frame without its check of lines 38-39
BuildTrainingFrameUnchecked(df) ==
    LET missing == {c \in {cTicker, cDate, cClose} : ~HasCol(df, c)}
    IN IF missing # {}
       THEN Raise("ValueError",
                  MsgCols(<<"build_training_frame: missing required columns: ", "{missing}">>,
                          {c.base : c \in missing}))
       ELSE Return(Frame(AddCol(df.cols, cTarget), LabelledRows(df)))

\* build_training_frame
BuildTrainingFrame(df) ==
    LET missing == {c \in {cTicker, cDate, cClose} : ~HasCol(df, c)}
    IN IF missing # {}
       THEN Raise("ValueError",
                  MsgCols(<<"build_training_frame: missing required columns: ", "{missing}">>,
                          {c.base : c \in missing}))
       ELSE NonEmptyFrame(AddCol(df.cols, cTarget), LabelledRows(df))

\* ------------------------------------------------------------ news_service
\* A text is the sequence of its words.  The scorers look for the words of
\* their lexicons anywhere in the lower-cased text, inside longer words too;
\* no word of a lexicon has a blank or a full stop in it, so a lexicon word
\* occurs in a text exactly when it occurs in one of its words.
LowerWord(w) == CASE w = "Gains" -> "gains" [] w = "UP" -> "up" [] OTHER -> w

\* the words of the four lexicons that occur in a lower-case word, for the
\* words the model's texts are made of
LexiconWordsIn(w) ==
    CASE w = "gains" -> {"gain", "gains"}
      [] w = "up" -> {"up"}
      [] w = "upgraded" -> {"up", "upgrade", "upgraded"}
      [] w = "bullish" -> {"bull", "bullish"}
      [] w = "good" -> {"good"}
      [] w = "down" -> {"down"}
      [] w = "losses" -> {"loss", "losses"}
      [] w = "lawsuit" -> {"lawsuit"}
      [] OTHER -> {}

\* w in text.lower()
OccursIn(w, text) == \E i \in 1..Len(text) : w \in LexiconWordsIn(LowerWord(text[i]))

POS_WORDS ==
    {"gain", "gains", "rally", "rallies", "surge", "surges", "up",
     "bullish", "beat", "beats", "strong", "record", "profit", "profits",
     "growth", "soar", "soars", "upgrade", "upgraded"}

NEG_WORDS ==
    {"loss", "losses", "fall", "falls", "drop", "drops", "down",
     "bearish", "miss", "misses", "weak", "plunge", "plunges",
     "selloff", "downgrade", "downgraded", "lawsuit"}

\* max(-1.0, min(1.0, score))
Clamp(c) == IF c.n > c.d THEN Num(1) ELSE IF c.n < -c.d THEN Num(-1) ELSE c

\* _score_text
ScoreText(text) ==
    LET pos == Cardinality({w \in POS_WORDS : OccursIn(w, text)})
        neg == Cardinality({w \in NEG_WORDS : OccursIn(w, text)})
    IN IF Len(text) = 0 THEN Num(0)
       ELSE IF pos = 0 /\ neg = 0 THEN Num(0)
       ELSE Clamp(Rat(pos - neg, pos + neg))

\* The news and the social vendors, as the process sees them at one call: for
\* each of the three sources whether its credential is configured, and what
\* the source does with the request for each ticker: kind "ok" (status 200
\* and a body with the items), "notok" (200 and a body whose status is not
\* ok), "status" (another status code), "raise" (no response: requests.get
\* raises).  An article has a title, a description and a publication date
\* (<<>> when missing or unreadable), a tweet a text and a creation date.
Answer(kind, items) == [kind |-> kind, items |-> items]

Article(date, title, description) == [date |-> date, title |-> title, description |-> description]

Tweet(date, text) == [text |-> text, date |-> date]

\* the vendors: the three credentials and the three sources' answers by ticker
Web(keys, newsapi, mediastack, twitter) ==
    [key |-> keys, newsapi |-> newsapi, mediastack |-> mediastack, twitter |-> twitter]

Keys(newsapi, mediastack, twitter) ==
    [newsapi |-> newsapi, mediastack |-> mediastack, twitter |-> twitter]

cSentiment == Col("sentiment")

\* no vendor reached: no credential, and nothing to answer
NoWeb ==
    Web(Keys(FALSE, FALSE, FALSE),
        [t \in KnownTickers |-> Answer("status", <<>>)],
        [t \in KnownTickers |-> Answer("status", <<>>)],
        [t \in KnownTickers |-> Answer("status", <<>>)])

RawNewsCols == <<cTicker, cDate, Col("title"), Col("description"), cSentiment>>

\* pd.DataFrame(rows) of the articles of one answer: no column when there is no row
ArticleFrame(t, items, start) ==
    Frame(IF Len(items) = 0 THEN <<>> ELSE RawNewsCols,
          Strict([i \in 1..Len(items) |->
              (cTicker :> t)
                  @@ (cDate :> IF Len(items[i].date) = 0 THEN start ELSE items[i].date[1])
                  @@ (Col("title") :> items[i].title)
                  @@ (Col("description") :> items[i].description)
                  @@ (cSentiment :> ScoreText(items[i].title \o items[i].description))]))

\* fetch_newsapi_news
FetchNewsapiNews(web, t, start, end) ==
    IF ~web.key.newsapi THEN Return(Frame(RawNewsCols, <<>>))
    ELSE IF web.newsapi[t].kind = "raise" THEN Raise("ConnectionError", Msg(<<>>))
    ELSE IF web.newsapi[t].kind \in {"status", "notok"} THEN Return(Frame(RawNewsCols, <<>>))
    ELSE Return(ArticleFrame(t, web.newsapi[t].items, start))

\* fetch_mediastack_news
FetchMediastackNews(web, t, start, end) ==
    IF ~web.key.mediastack THEN Return(Frame(RawNewsCols, <<>>))
    ELSE IF web.mediastack[t].kind = "raise" THEN Raise("ConnectionError", Msg(<<>>))
    ELSE IF web.mediastack[t].kind = "status" THEN Return(Frame(RawNewsCols, <<>>))
    ELSE Return(ArticleFrame(t, web.mediastack[t].items, start))

\* float(Series.mean())
Mean(vals) == LET sum == SumNum(vals) IN Rat(sum.n, sum.d * Len(vals))

\* Series.std(ddof): null on ddof observations or fewer
StdOf(vals, ddof) ==
    IF Len(vals) <= ddof THEN NaN
    ELSE IF AllEqual(vals) THEN Num(0)
    ELSE [k |-> IF ddof = 1 THEN "std" ELSE "pstd", n |-> 0, d |-> 1, w |-> vals]

\* (s > 0).mean() when sign is 1, (s < 0).mean() when it is -1
Share(vals, sign) == Rat(Cardinality({i \in 1..Len(vals) : sign * vals[i].n > 0}), Len(vals))

\* groupby(["ticker", "date"]) and the five aggregates of the sentiment
\* column, one row per group in key order, under the column names cols
DailyAggregate(rows, cols, ddof) ==
    LET sorted == SortRows(rows, TRUE)
        same(i, j) == sorted[i][cTicker] = sorted[j][cTicker] /\ sorted[i][cDate] = sorted[j][cDate]
        firsts == {i \in 1..Len(sorted) : i = 1 \/ ~same(i, i - 1)}
        first(g) == CHOOSE i \in firsts : Cardinality({x \in firsts : x <= i}) = g
        vals(i) == Column(SelectSeq(sorted, LAMBDA r : r[cTicker] = sorted[i][cTicker]
                                                        /\ r[cDate] = sorted[i][cDate]),
                          cSentiment)
        agg(i) == (cols[1] :> sorted[i][cTicker]) @@ (cols[2] :> sorted[i][cDate])
                      @@ (cols[3] :> Mean(vals(i)))
                      @@ (cols[4] :> StdOf(vals(i), ddof))
                      @@ (cols[5] :> Num(Len(vals(i))))
                      @@ (cols[6] :> Share(vals(i), 1))
                      @@ (cols[7] :> Share(vals(i), -1))
    IN Frame(cols, Strict([g \in 1..Cardinality(firsts) |-> agg(first(g))]))

NewsCols == <<cTicker, cDate, Col("news_sent_mean"), Col("news_sent_std"), Col("news_count"),
              Col("news_pos_share"), Col("news_neg_share")>>

\* fetch_news_for_tickers, lines 219-237: what the two sources gave for one
\* ticker, a source that raised counting for an empty frame
Combined(web, t, start, end) ==
    LET newsapi == FetchNewsapiNews(web, t, start, end)
        mediastack == FetchMediastackNews(web, t, start, end)
        frames == << IF newsapi.ok THEN newsapi.df ELSE Frame(RawNewsCols, <<>>),
                     IF mediastack.ok THEN mediastack.df ELSE Frame(RawNewsCols, <<>>) >>
    IN Frame(ConcatCols(frames), ConcatRows(frames))

\* fetch_news_for_tickers; dropna(subset = ["date"]) raises on a frame that
\* has no date column
FetchNewsForTickers(web, tickers, start, end) ==
    LET combined == Strict([i \in 1..Len(tickers) |-> Combined(web, tickers[i], start, end)])
        all_rows == SelectSeq(combined, LAMBDA f : ~IsEmpty(f))
    IN IF \E i \in 1..Len(tickers) : ~HasCol(combined[i], cDate)
       THEN Raise("KeyError", MsgCols(<<"{missing}">>, {"date"}))
       ELSE IF Len(all_rows) = 0 THEN Return(Frame(NewsCols, <<>>))
       ELSE Return(DailyAggregate(ConcatRows(all_rows), NewsCols, 1))

\* --------------------------------------------------------- twitter_service
TW_POS_WORDS == {"good", "great", "bull", "bullish", "up", "gain", "gains", "green"}

TW_NEG_WORDS == {"bad", "terrible", "bear", "bearish", "down", "loss", "losses", "red"}

\* _simple_sentiment
SimpleSentiment(text) ==
    LET score == Cardinality({w \in TW_POS_WORDS : OccursIn(w, text)})
                    - Cardinality({w \in TW_NEG_WORDS : OccursIn(w, text)})
    IN IF score = 0 THEN Num(0) ELSE IF score > 0 THEN Num(1) ELSE Num(-1)

\* the day of datetime.now(), counted like the trading days
Today == 3

\* _fetch_twitter_for_single, lines 75-106: the window, start clipped to seven
\* days before now and end to ten seconds before now, is not empty
RecentWindow(start, end) == start <= end /\ start <= Today /\ end >= Today - 7

RawTwCols == <<cTicker, Col("created_at"), Col("text"), cSentiment>>

\* _fetch_twitter_for_single
FetchTwitterForSingle(web, t, start, end) ==
    IF ~web.key.twitter THEN Return(Frame(RawTwCols, <<>>))
    ELSE IF ~RecentWindow(start, end) THEN Return(Frame(RawTwCols, <<>>))
    ELSE IF web.twitter[t].kind = "raise" THEN Raise("ConnectionError", Msg(<<>>))
    ELSE IF web.twitter[t].kind = "status" THEN Return(Frame(RawTwCols, <<>>))
    ELSE IF Len(web.twitter[t].items) = 0 THEN Return(Frame(RawTwCols, <<>>))
    ELSE Return(Frame(RawTwCols,
                      Strict([i \in 1..Len(web.twitter[t].items) |->
                          LET tw == web.twitter[t].items[i]
                          IN (cTicker :> t)
                                @@ (Col("created_at") :> IF Len(tw.date) = 0 THEN Today ELSE tw.date[1])
                                @@ (Col("text") :> tw.text)
                                @@ (cSentiment :> SimpleSentiment(tw.text))])))

TwCols == <<cTicker, cDate, Col("tw_sent_mean"), Col("tw_sent_std"), Col("tw_count"),
            Col("tw_pos_share"), Col("tw_neg_share")>>

\* fetch_twitter_for_tickers: an exception of one ticker's fetch ends the call
FetchTwitterForTickers(web, tickers, start, end) ==
    LET raw == Strict([i \in 1..Len(tickers) |-> FetchTwitterForSingle(web, tickers[i], start, end)])
        all_raw == SelectSeq(Strict([i \in 1..Len(tickers) |-> raw[i].df]), LAMBDA f : ~IsEmpty(f))
        dated == Strict([i \in 1..Len(ConcatRows(all_raw)) |->
                    WithCell(ConcatRows(all_raw)[i], cDate, ConcatRows(all_raw)[i][Col("created_at")])])
    IN IF \E i \in 1..Len(tickers) : ~raw[i].ok
       THEN Raise("ConnectionError", Msg(<<>>))
       ELSE IF Len(all_raw) = 0 THEN Return(Frame(TwCols, <<>>))
       ELSE Return(DailyAggregate(dated, TwCols, 0))

\* -------------------------------------------------------- sentiment_service
cNextClose == Col("next_close")

\* "close" in str(c).lower(), on the column names the model uses
IsCloseLike(c) == LowerBase(c.base) = "close"

\* _normalize_price_frame, lines 72-79, on a frame with ticker and date whose
\* first close-like column is priceCol: next_close is the shifted price of the
\* ticker, target_up the comparison as a float (0.0 where next_close is null,
\* never null itself, so that dropna removes no row)
TargetFromPrice(df, priceCol) ==
    LET out == SortRows(df.rows, TRUE)
        nextClose(i) == IF i < Len(out) /\ out[i + 1][cTicker] = out[i][cTicker]
                        THEN out[i + 1][priceCol] ELSE NaN
        target(i) == IF Greater(nextClose(i), out[i][priceCol]) THEN Num(1) ELSE Num(0)
        rows == Strict([i \in 1..Len(out) |->
                   WithCell(WithCell(out[i], cNextClose, nextClose(i)), cTarget, target(i))])
    IN Frame(AddCol(AddCol(df.cols, cNextClose), cTarget),
             SelectSeq(rows, LAMBDA r : ~IsNaN(r[cTarget])))

\* _normalize_price_frame, lines 45-81, the date column being there
NormalizeDated(df) ==
    IF ~HasCol(df, cTicker)
    THEN Raise("ValueError", Msg(<<"Prices DataFrame does not contain 'ticker' column">>))
    ELSE IF HasCol(df, cTarget) THEN Return(df)
    ELSE IF \A i \in 1..Len(df.cols) : ~IsCloseLike(df.cols[i])
    THEN Raise("ValueError",
               Msg(<<"Could not find a price column (containing 'close') to compute 'target_up'">>))
    ELSE Return(TargetFromPrice(df, SelectSeq(df.cols, IsCloseLike)[1]))

\* lines 38-39: reset_index().rename(columns = {"index": "date"}) on a default
\* index, then to_datetime(...).dt.date: the row numbers, read as nanoseconds
\* of the epoch day (day 0)
DateFromIndex(df) ==
    [df EXCEPT !.cols = <<cDate>> \o @,
               !.rows = Strict([i \in 1..Len(df.rows) |-> WithCell(df.rows[i], cDate, 0)])]

\* _normalize_price_frame.  Every index is a pd.Index, so line 41 is not reached.
NormalizePriceFrame(prices) ==
    IF IsEmpty(prices)
    THEN Raise("ValueError", Msg(<<"Prices DataFrame is empty in build_training_frame">>))
    ELSE NormalizeDated(IF HasCol(prices, cDate) THEN prices
                        ELSE IF HasCol(prices, Col("Date")) THEN RenameCol(prices, Col("Date"), cDate)
                        ELSE DateFromIndex(prices))

\* the rows of the left merge of one row with the daily frame
MergedRows(r, daily) ==
    LET extra == {c \in Range(daily.cols) : c \notin {cTicker, cDate}}
        hits == SelectSeq(daily.rows, LAMBDA x : x[cTicker] = r[cTicker] /\ x[cDate] = r[cDate])
    IN IF Len(hits) = 0 THEN <<Strict([c \in extra |-> NaN]) @@ r>>
       ELSE Strict([i \in 1..Len(hits) |-> Strict([c \in extra |-> hits[i][c]]) @@ r])

RECURSIVE MergeAll(_, _)
MergeAll(rows, daily) ==
    IF Len(rows) = 0 THEN <<>>
    ELSE MergedRows(Head(rows), daily) \o MergeAll(Tail(rows), daily)

\* df.merge(daily, on = ["ticker", "date"], how = "left") when daily is not empty
LeftMerge(df, daily) ==
    IF IsEmpty(daily) THEN df
    ELSE [df EXCEPT !.cols = @ \o SelectSeq(daily.cols, LAMBDA c : c \notin {cTicker, cDate}),
                    !.rows = MergeAll(df.rows, daily)]

\* build_training_frame, lines 99-168, df being what _normalize_price_frame returned
MergeSentiment(df, start, end, news, tw) ==
    LET rows == SelectSeq(df.rows, LAMBDA r : r[cDate] >= start /\ r[cDate] <= end)
    IN IF Len(rows) = 0
       THEN Raise("ValueError",
                  Msg(<<"No price rows in training window after filtering: start=", ToString(start),
                        ", end=", ToString(end)>>))
       ELSE Return(LeftMerge(LeftMerge([df EXCEPT !.rows = rows], news), tw))

\* build_training_frame from line 99 on, norm being what _normalize_price_frame did
SentimentFrameOf(norm, start, end, news, tw) ==
    IF ~norm.ok THEN norm ELSE MergeSentiment(norm.df, start, end, news, tw)

\* sentiment_service.build_training_frame; news and tw are the daily frames of
\* the two fetches, empty when a fetch raised
SentimentBuildTrainingFrame(prices, start, end, news, tw) ==
    SentimentFrameOf(NormalizePriceFrame(prices), start, end, news, tw)

\* a fetch's daily frame as build_training_frame has it: empty, under the
\* columns cols, when the fetch raised (lines 109-123 and 129-143)
DailyOrEmpty(out, cols) == IF out.ok THEN out.df ELSE Frame(cols, <<>>)

\* ----------------------------------------------------------- model_service
FEATURE_COLS ==
    << Col("news_sent_mean"), Col("news_sent_std"), Col("news_count"),
       Col("news_pos_share"), Col("news_neg_share"),
       Col("tw_sent_mean"), Col("tw_sent_std"), Col("tw_count"),
       Col("tw_pos_share"), Col("tw_neg_share"),
       cRet1, cRet5, cVol5, cVol21, cDow >>

\* a selection among the columns add_price_features makes
SelectProducedCols(df) == SelectSeq(FeatureCols, LAMBDA c : HasCol(df, c))

\* _select_feature_cols, before its emptiness check
SelectFeatureCols(df) == SelectSeq(FEATURE_COLS, LAMBDA c : HasCol(df, c))

\* df[feature_cols].fillna(0.0) on one row
FeatureVector(r, featureCols) == Strict([c \in Range(featureCols) |-> FillNa(r[c])])

RECURSIVE SumSeq(_)
SumSeq(xs) == IF Len(xs) = 0 THEN 0 ELSE Head(xs) + SumSeq(Tail(xs))

\* A fitted classifier is the data it was fitted on.  The forest is a library
\* capability: what the model keeps of it is that predict_proba has one column
\* per class seen in fitting, and that its value is a function of the fitted
\* data and the row, here the share (in percent) of up labels among the fitted
\* rows, a fitted row equal to the queried one counting twice.
Fit(X, y) == [X |-> X, y |-> y]

Classes(clf) == Range(clf.y)

ProbaUp(clf, x) ==
    LET w == [i \in 1..Len(clf.y) |-> IF clf.X[i] = x THEN 2 ELSE 1]
    IN (100 * SumSeq([i \in 1..Len(clf.y) |-> w[i] * clf.y[i]])) \div SumSeq(w)

\* clf.predict_proba(X)[., 1]: there is no column 1 when one class was fitted
PredictProba(clf, x) ==
    IF Cardinality(Classes(clf)) < 2
    THEN [ok |-> FALSE, p |-> 0]
    ELSE [ok |-> TRUE, p |-> ProbaUp(clf, x)]

\* roc_auc_score, in percent: the share of (up, down) pairs ranked in order, ties counting half
RocAuc(yTest, proba) ==
    LET ups == {i \in 1..Len(yTest) : yTest[i] = 1}
        downs == {i \in 1..Len(yTest) : yTest[i] # 1}
        won == Cardinality({pr \in ups \X downs : proba[pr[1]] > proba[pr[2]]})
        tied == Cardinality({pr \in ups \X downs : proba[pr[1]] = proba[pr[2]]})
    IN (100 * (2 * won + tied)) \div (2 * Cardinality(ups) * Cardinality(downs))

\* train_test_split(test_size = 0.2, shuffle = False): the size of the trailing test part
TestSize(n) == (n + 4) \div 5

\* a train_model that clears the two globals on its way out with an exception
TrainFailReset(exc, msg) ==
    [df |-> <<>>, exc |-> exc, msg |-> msg, ok |-> FALSE,
     set |-> TRUE, model |-> <<>>, roc_auc |-> <<>>]

TrainFail(exc, msg) ==
    [df |-> <<>>, exc |-> exc, msg |-> msg, ok |-> FALSE,
     set |-> FALSE, model |-> <<>>, roc_auc |-> <<>>]

\* a train_model that drops every row with a null in it
TrainModelDropNa(train_df) ==
    IF IsEmpty(train_df)
    THEN TrainFail("ValueError", Msg(<<"train_model received an empty training DataFrame">>))
    ELSE IF ~HasCol(train_df, cTarget)
    THEN TrainFail("ValueError", Msg(<<"Training DataFrame must contain 'target_up' column ",
                                       "(did build_training_frame run correctly?)">>))
    ELSE LET rows == SelectSeq(train_df.rows,
                             LAMBDA r : \A c \in (DOMAIN r) \ {cTicker, cDate} : ~IsNaN(r[c]))
             df == [train_df EXCEPT !.rows = rows]
             featureCols == SelectFeatureCols(df)
             n == Len(rows)
             X == Strict([i \in 1..n |-> FeatureVector(rows[i], featureCols)])
             y == Strict([i \in 1..n |-> rows[i][cTarget].n])
             nTrain == n - TestSize(n)
             clf == Fit(SubSeq(X, 1, nTrain), SubSeq(y, 1, nTrain))
             XTest == SubSeq(X, nTrain + 1, n)
             yTest == SubSeq(y, nTrain + 1, n)
             both == Cardinality(Range(yTest)) > 1
             proba == Strict([i \in 1..Len(XTest) |-> PredictProba(clf, XTest[i])])
         IN IF n = 0
            THEN TrainFail("ValueError", Msg(<<"No rows with non-null target_up in training DataFrame">>))
            ELSE IF Len(featureCols) = 0
            THEN TrainFail("ValueError", Msg(<<"No expected feature columns found in training DataFrame">>))
            ELSE IF n < 2
            THEN TrainFail("ValueError", NotEnoughRows(n))
            ELSE IF both /\ \E i \in 1..Len(proba) : ~proba[i].ok
            THEN TrainFail("IndexError", Msg(<<"index 1 is out of bounds for axis 1">>))
            ELSE [df |-> <<df>>, exc |-> "", msg |-> Msg(<<>>), ok |-> TRUE,
                  set |-> TRUE,
                  model |-> <<[clf |-> clf, feature_cols |-> featureCols]>>,
                  roc_auc |-> IF both
                              THEN <<RocAuc(yTest, [i \in 1..Len(proba) |-> proba[i].p])>>
                              ELSE <<>>]

\* train_model: [ok, exc, msg] the way it ends, set whether the two globals are
\* assigned, and then model and df, the values they are assigned
TrainModel(train_df) ==
    IF IsEmpty(train_df)
    THEN TrainFail("ValueError", Msg(<<"train_model received an empty training DataFrame">>))
    ELSE IF ~HasCol(train_df, cTarget)
    THEN TrainFail("ValueError", Msg(<<"Training DataFrame must contain 'target_up' column ",
                                       "(did build_training_frame run correctly?)">>))
    ELSE LET rows == SelectSeq(train_df.rows, LAMBDA r : ~IsNaN(r[cTarget]))
             df == [train_df EXCEPT !.rows = rows]
             featureCols == SelectFeatureCols(df)
             n == Len(rows)
             X == Strict([i \in 1..n |-> FeatureVector(rows[i], featureCols)])
             y == Strict([i \in 1..n |-> rows[i][cTarget].n])
             nTrain == n - TestSize(n)
             clf == Fit(SubSeq(X, 1, nTrain), SubSeq(y, 1, nTrain))
             XTest == SubSeq(X, nTrain + 1, n)
             yTest == SubSeq(y, nTrain + 1, n)
             both == Cardinality(Range(yTest)) > 1
             proba == Strict([i \in 1..Len(XTest) |-> PredictProba(clf, XTest[i])])
         IN IF n = 0
            THEN TrainFail("ValueError", Msg(<<"No rows with non-null target_up in training DataFrame">>))
            ELSE IF Len(featureCols) = 0
            THEN TrainFail("ValueError", Msg(<<"No expected feature columns found in training DataFrame">>))
            ELSE IF n < 2
            THEN TrainFail("ValueError", NotEnoughRows(n))
            ELSE IF both /\ \E i \in 1..Len(proba) : ~proba[i].ok
            THEN TrainFail("IndexError", Msg(<<"index 1 is out of bounds for axis 1">>))
            ELSE [df |-> <<df>>, exc |-> "", msg |-> Msg(<<>>), ok |-> TRUE,
                  set |-> TRUE,
                  model |-> <<[clf |-> clf, feature_cols |-> featureCols]>>,
                  roc_auc |-> IF both
                              THEN <<RocAuc(yTest, [i \in 1..Len(proba) |-> proba[i].p])>>
                              ELSE <<>>]

\* the rows of a ticker, compared without regard to case
RowsOfAnyCase(df, ticker) == SelectSeq(df.rows, LAMBDA r : Upper(r[cTicker]) = Upper(ticker))

\* df[df["ticker"] == ticker]
RowsOf(df, ticker) == SelectSeq(df.rows, LAMBDA r : r[cTicker] = ticker)

PredictFail(exc, msg) == [exc |-> exc, msg |-> msg, ok |-> FALSE, prob |-> 0]

\* a predict_next that reads the ticker's first row by date
PredictNextEarliest(globalModel, lastTrainDf, ticker) ==
    IF Len(globalModel) = 0 \/ Len(lastTrainDf) = 0
    THEN PredictFail("RuntimeError", Msg(<<"Model has not been trained yet", " in this process">>))
    ELSE LET clf == globalModel[1].clf
             featureCols == globalModel[1].feature_cols
             df == lastTrainDf[1]
             dfT == SortRows(RowsOf(df, ticker), FALSE)
             proba == PredictProba(clf, FeatureVector(dfT[1], featureCols))
         IN IF ~HasCol(df, cTicker)
            THEN PredictFail("ValueError", Msg(<<"Training DataFrame does not contain 'ticker' column">>))
            ELSE IF ~HasCol(df, cDate)
            THEN PredictFail("ValueError", Msg(<<"Training DataFrame does not contain 'date' column">>))
            ELSE IF Len(dfT) = 0
            THEN PredictFail("ValueError", MsgT(<<"No training samples found for ticker '", "{ticker}", "'">>, ticker))
            ELSE IF ~proba.ok
            THEN PredictFail("IndexError", Msg(<<"index 1 is out of bounds for axis 1">>))
            ELSE [exc |-> "", msg |-> Msg(<<>>), ok |-> TRUE, prob |-> proba.p]

\* predict_next on the values read from _GLOBAL_MODEL and _LAST_TRAIN_DF
\* (<<>> is None)
PredictNext(globalModel, lastTrainDf, ticker) ==
    IF Len(globalModel) = 0 \/ Len(lastTrainDf) = 0
    THEN PredictFail("RuntimeError", Msg(<<"Model has not been trained yet", " in this process">>))
    ELSE LET clf == globalModel[1].clf
             featureCols == globalModel[1].feature_cols
             df == lastTrainDf[1]
             dfT == SortRows(RowsOf(df, ticker), FALSE)
             proba == PredictProba(clf, FeatureVector(dfT[Len(dfT)], featureCols))
         IN IF ~HasCol(df, cTicker)
            THEN PredictFail("ValueError", Msg(<<"Training DataFrame does not contain 'ticker' column">>))
            ELSE IF ~HasCol(df, cDate)
            THEN PredictFail("ValueError", Msg(<<"Training DataFrame does not contain 'date' column">>))
            ELSE IF Len(dfT) = 0
            THEN PredictFail("ValueError", MsgT(<<"No training samples found for ticker '", "{ticker}", "'">>, ticker))
            ELSE IF ~proba.ok
            THEN PredictFail("IndexError", Msg(<<"index 1 is out of bounds for axis 1">>))
            ELSE [exc |-> "", msg |-> Msg(<<>>), ok |-> TRUE, prob |-> proba.p]

\* -------------------------------------------------------- routes_sentiment
\* lines 35-43 without the strip() calls
EffectiveTickersUnstripped(body) ==
    LET first == IF Len(body.ticker) > 0 /\ Len(body.ticker[1]) > 0
                 THEN <<body.ticker[1]>> ELSE <<>>
        rest == IF Len(body.tickers) > 0 /\ Len(body.tickers[1]) > 0
                THEN SelectSeq(body.tickers[1], LAMBDA t : Len(t) > 0) ELSE <<>>
        tickers == first \o rest
    IN {Upper(tickers[i]) : i \in 1..Len(tickers)}

\* train_endpoint, lines 35-43: the list `tickers` holds the elements of this set
\* (an optional field is <<>> when absent, <<value>> when present)
EffectiveTickers(body) ==
    LET first == IF Len(body.ticker) > 0 /\ Len(body.ticker[1]) > 0
                 THEN <<body.ticker[1]>> ELSE <<>>
        rest == IF Len(body.tickers) > 0 /\ Len(body.tickers[1]) > 0
                THEN SelectSeq(body.tickers[1], LAMBDA t : Len(t) > 0) ELSE <<>>
        tickers == first \o rest
    IN {Upper(Strip(tickers[i])) : i \in {j \in 1..Len(tickers) : Len(Strip(tickers[j])) > 0}}

\* the orders in which list(set) may hold the elements
Orders(S) == {p \in [1..Cardinality(S) -> S] : \A i, j \in 1..Cardinality(S) : i # j => p[i] # p[j]}

Resp(status, detail) ==
    [start |-> 0, end |-> 0, tickers |-> <<>>,
     exc |-> "", roc_auc |-> <<>>, prob |-> 0,
     status |-> status, detail |-> detail, train_rows |-> 0, price_rows |-> 0]

\* an exception no handler catches: the framework answers 500
Unhandled(exc, msg) ==
    [Resp(500, Msg(<<"Internal Server Error">>)) EXCEPT !.exc = exc]

\* what the handler did on the way: the list of line 43, whether it called the
\* price fetch, and the lengths of the price frame and of the training frame
\* (-1: not reached)
Trace(tickers, fetched, priceRows, frameRows) ==
    [tickers |-> tickers, fetched |-> fetched, priceRows |-> priceRows, frameRows |-> frameRows]

Ended(resp, trace) == [df |-> <<>>, set |-> FALSE, model |-> <<>>, resp |-> resp, trace |-> trace]

\* a date validation that takes a one-day window for a reversed one
DateErrorStrict(body) ==
    IF body.start >= body.end THEN <<Msg(<<"start_date must be before end_date">>)>>
    ELSE <<>>

\* train_endpoint, lines 52-63: the detail of the rejection, <<>> when the dates pass
DateError(body) ==
    IF body.start > body.end THEN <<Msg(<<"start_date must be before end_date">>)>>
    ELSE IF body.start = body.end THEN <<NotEnoughRows(1)>>
    ELSE <<>>

\* train_endpoint on a request body; tickers is the list of line 43
\* train_endpoint from the train_model call on, `trained` being what the call did
TrainAnswer(body, tickers, nPrices, nRows, trained) ==
    IF ~trained.ok
    THEN [Ended(IF trained.exc = "ValueError" THEN Resp(400, trained.msg)
                ELSE Unhandled(trained.exc, trained.msg),
                Trace(tickers, TRUE, nPrices, nRows))
          EXCEPT !.set = trained.set, !.model = trained.model, !.df = trained.df]
    ELSE [df |-> trained.df,
          set |-> TRUE,
          model |-> trained.model, resp |-> [Resp(200, Msg(<<"Training completed">>)) EXCEPT
                       !.tickers = tickers, !.start = body.start, !.end = body.end,
                       !.train_rows = nRows, !.price_rows = nPrices,
                       !.roc_auc = trained.roc_auc], trace |-> Trace(tickers, TRUE, nPrices, nRows)]

\* train_endpoint from the build_training_frame call on, `built` being what the call did
TrainOnFrame(body, tickers, nPrices, built) ==
    IF ~built.ok
    THEN Ended(Resp(400, built.msg), Trace(tickers, TRUE, nPrices, 0))
    ELSE IF Len(built.df.rows) < 2
    THEN Ended(Resp(400, NotEnoughRows(Len(built.df.rows))),
               Trace(tickers, TRUE, nPrices, Len(built.df.rows)))
    ELSE TrainAnswer(body, tickers, nPrices, Len(built.df.rows), TrainModel(built.df))

\* train_endpoint from the add_price_features call on, `feats` being what the call did
TrainOnFeatures(body, tickers, nPrices, feats) ==
    IF ~feats.ok
    THEN Ended(Unhandled(feats.exc, feats.msg), Trace(tickers, TRUE, nPrices, -1))
    ELSE TrainOnFrame(body, tickers, nPrices, BuildTrainingFrame(feats.df))

\* train_endpoint from the fetched prices on
TrainOnPrices(body, tickers, prices) ==
    IF IsEmpty(prices)
    THEN Ended(Resp(400, Msg(<<"No price data returned for given tickers and date range">>)),
               Trace(tickers, TRUE, 0, -1))
    ELSE TrainOnFeatures(body, tickers, Len(prices.rows), AddPriceFeatures(prices))

\* train_endpoint on the list `tickers` it derived from the body
TrainEndpoint(market, body, tickers) ==
    IF Len(tickers) = 0
    THEN Ended(Resp(400, Msg(<<"At least one ticker is required", " (ticker or tickers field).">>)),
               Trace(tickers, FALSE, -1, -1))
    ELSE IF Len(DateError(body)) > 0
    THEN Ended(Resp(400, DateError(body)[1]), Trace(tickers, FALSE, -1, -1))
    ELSE TrainOnPrices(body, tickers, FetchPrices(market, tickers, body.start, body.end))

\* predict_next_endpoint from the predict_next call on, r being what the call did
PredictAnswer(ticker, r) ==
    IF r.ok THEN [Resp(200, Msg(<<>>)) EXCEPT !.tickers = <<ticker>>, !.prob = r.prob]
    ELSE IF r.exc \in {"RuntimeError", "ValueError"} THEN Resp(400, r.msg)
    ELSE Unhandled(r.exc, r.msg)

\* a predict_next_endpoint with the ValueError handler alone
PredictEndpointValueOnly(globalModel, lastTrainDf, ticker) ==
    LET r == PredictNext(globalModel, lastTrainDf, ticker)
    IN IF r.ok THEN [Resp(200, Msg(<<>>)) EXCEPT !.tickers = <<ticker>>, !.prob = r.prob]
       ELSE IF r.exc = "ValueError" THEN Resp(400, r.msg)
       ELSE Unhandled(r.exc, r.msg)

\* predict_next_endpoint
PredictEndpoint(globalModel, lastTrainDf, ticker) ==
    PredictAnswer(ticker, PredictNext(globalModel, lastTrainDf, ticker))

\* ---------------------------------------------------------------- requests
Dates == 1..MaxDate

Body(ticker, tickers) == [tickers |-> tickers, ticker |-> ticker]

\* ticker / tickers fields of the train requests
TickerBodies ==
    { Body(<<>>, <<>>),
      Body(<<>>, << <<>> >>),
      Body(<< <<" ">> >>, << << <<" ", " ">>, <<>> >> >>),
      Body(<< <<"a">> >>, << << <<"A">>, <<" ", "a">> >> >>),
      Body(<< <<"B", " ">> >>, << << <<"a">>, <<"b">> >> >>),
      Body(<< <<"a", "b">> >>, <<>>) }

TrainRequests ==
    {[start |-> s, end |-> e, tickers |-> b.tickers, kind |-> "train", ticker |-> b.ticker] :
        b \in TickerBodies, s \in Dates, e \in Dates}

\* ticker field of the predict requests
PredictTickers == {<<"A">>, <<"B">>, <<"a">>, <<"A", "B">>}

PredictRequest(t) ==
    [start |-> 0, end |-> 0, tickers |-> <<>>, kind |-> "predict", ticker |-> <<t>>]

NoRequest == [start |-> 0, end |-> 0, tickers |-> <<>>, kind |-> "none", ticker |-> <<>>]

\* ------------------------------------------------------------ direct calls
\* Frames handed to train_model by a caller other than the endpoint.
DCols == <<cTicker, cDate, cRet1, cTarget>>

\* one ticker on the days 1.., with the given labels; ret_1d is null on day 1
Labelled(t, ys) ==
    Frame(DCols,
          Strict([i \in 1..Len(ys) |->
              (cTicker :> t) @@ (cDate :> i)
                  @@ (cRet1 :> IF i = 1 THEN NaN ELSE Num(i)) @@ (cTarget :> ys[i])]))

\* df[cols]
Project(df, cols) ==
    Frame(cols, Strict([i \in 1..Len(df.rows) |->
                    Strict([c \in Range(cols) |-> df.rows[i][c]])]))

DirectFrames ==
    { Frame(DCols, <<>>),
      Project(Labelled(<<"A">>, <<Num(1), Num(0)>>), <<cTicker, cDate, cRet1>>),
      Labelled(<<"A">>, <<NaN, NaN>>),
      Project(Labelled(<<"A">>, <<Num(1), Num(0)>>), <<cTicker, cDate, cTarget>>),
      Labelled(<<"A">>, <<NaN, Num(1)>>),
      Labelled(<<"A">>, <<Num(1), NaN, Num(0), Num(1)>>),
      Labelled(<<"B">>, <<Num(0), Num(1), Num(0)>>),
      Labelled(<<"A">>, <<Num(1), Num(1)>>),
      Labelled(<<"A">>, <<Num(0), Num(0), Num(0), Num(0), Num(1), Num(0)>>),
      Labelled(<<"B">>, <<Num(1), Num(0), Num(1), Num(0), Num(1), Num(0)>>),
      Project(Labelled(<<"A">>, <<Num(1), Num(0), Num(1)>>), <<cDate, cRet1, cTarget>>) }

\* the frames of the overlapping calls
ConcFrames ==
    { Labelled(<<"A">>, <<Num(1), NaN, Num(0), Num(1)>>),
      Labelled(<<"B">>, <<Num(0), Num(1), Num(0)>>) }

ConcTickers == {<<"A">>, <<"B">>}

TrainModelRequest ==
    [start |-> 0, end |-> 0, tickers |-> <<>>, kind |-> "train_model", ticker |-> <<>>]

\* what a direct caller of train_model sees: the returned dict, or the exception
Returned(out) ==
    [Resp(0, out.msg) EXCEPT !.exc = out.exc, !.roc_auc = out.roc_auc]

\* ------------------------------------------------------------------- state
VARIABLES
    market,         \* the price vendor this process talks to
    web,            \* the news and social vendors it talks to
    GLOBAL_MODEL,   \* model_service._GLOBAL_MODEL: <<>> or <<[clf, feature_cols]>>
    LAST_TRAIN_DF,  \* model_service._LAST_TRAIN_DF: <<>> or <<frame>>
    req,            \* the last request
    trace,          \* what its handler did on the way
    resp,           \* its response
    trainers,       \* the overlapping train_model calls: position and locals
    predictor,      \* the overlapping predict_next call: position and locals
    modelBy,        \* the train_model call that assigned _GLOBAL_MODEL (0: none)
    dfBy,           \* the train_model call that assigned _LAST_TRAIN_DF (0: none)
    call,           \* the call a caller in the process made last, if the last step
                    \* was not an HTTP request: the function's name and arguments
    ret             \* what that call did: the frame returned or the exception

vars == <<market, web, GLOBAL_MODEL, LAST_TRAIN_DF, req, trace, resp,
          trainers, predictor, modelBy, dfBy, call, ret>>

threads == <<trainers, predictor, modelBy, dfBy>>

IdleTrainer == [df |-> <<>>, model |-> <<>>, pc |-> "idle"]

IdlePredictor ==
    [df |-> <<>>, out |-> PredictFail("", Msg(<<>>)), model |-> <<>>, ticker |-> <<>>,
     modelBy |-> 0, dfBy |-> 0, pc |-> "idle"]

\* a call of the function fn on the frame df; the tickers, start and end, and
\* the daily frames the news and twitter fetches gave it, where the function
\* has them
WebCall(fn, tickers, df, start, end, news, tw) ==
    [df |-> df, start |-> start, end |-> end, tickers |-> tickers, tw |-> tw,
     news |-> news, fn |-> fn]

Call(fn, df, start, end, news, tw) == WebCall(fn, <<>>, df, start, end, news, tw)

NoCall == Call("none", NoFrame, 0, 0, NoFrame, NoFrame)

NoFrameCall(fn, df) == Call(fn, df, 0, 0, NoFrame, NoFrame)

\* the process after start-up, w being the news and social vendors
InitOn(w) ==
    /\ market \in Markets
    /\ web = w
    /\ GLOBAL_MODEL = <<>>
    /\ LAST_TRAIN_DF = <<>>
    /\ req = NoRequest
    /\ trace = Trace(<<>>, FALSE, -1, -1)
    /\ resp = Resp(0, Msg(<<>>))
    /\ trainers = [i \in 1..MaxTrainCalls |-> IdleTrainer]
    /\ predictor = IdlePredictor
    /\ modelBy = 0
    /\ dfBy = 0
    /\ call = NoCall
    /\ ret = Return(NoFrame)

Init == InitOn(NoWeb)

\* a train that keeps, next to the new rows, the retained rows of the tickers
\* the new frame does not have
TrainMerging ==
    \E r \in TrainRequests :
        \E tickers \in Orders(EffectiveTickers(r)) :
            \E out \in {TrainEndpoint(market, r, tickers)} :
               /\ req' = r
               /\ trace' = out.trace
               /\ resp' = out.resp
               /\ GLOBAL_MODEL' = IF out.set THEN out.model ELSE GLOBAL_MODEL
               /\ LAST_TRAIN_DF' =
                     IF ~out.set THEN LAST_TRAIN_DF
                     ELSE IF LAST_TRAIN_DF = <<>> THEN out.df
                     ELSE <<[out.df[1] EXCEPT !.rows =
                               SelectSeq(LAST_TRAIN_DF[1].rows,
                                         LAMBDA old :
                                             /\ cTicker \in DOMAIN old
                                             /\ \A i \in 1..Len(out.df[1].rows) :
                                                   out.df[1].rows[i][cTicker] # old[cTicker])
                                   \o @]>>
               /\ call' = NoCall
               /\ UNCHANGED <<market, web, threads, ret>>

\* a train that appends the new rows to the retained ones (until the retained
\* frame is the longer of the two)
TrainAppending ==
    \E r \in TrainRequests :
        \E tickers \in Orders(EffectiveTickers(r)) :
            \E out \in {TrainEndpoint(market, r, tickers)} :
               /\ req' = r
               /\ trace' = out.trace
               /\ resp' = out.resp
               /\ GLOBAL_MODEL' = IF out.set THEN out.model ELSE GLOBAL_MODEL
               /\ LAST_TRAIN_DF' =
                     IF ~out.set THEN LAST_TRAIN_DF
                     ELSE IF LAST_TRAIN_DF = <<>> THEN out.df
                     ELSE IF Len(LAST_TRAIN_DF[1].rows) > Len(out.df[1].rows) THEN out.df
                     ELSE <<[out.df[1] EXCEPT !.rows = LAST_TRAIN_DF[1].rows \o @]>>
               /\ call' = NoCall
               /\ UNCHANGED <<market, web, threads, ret>>

\* POST /model/train
Train ==
    \E r \in TrainRequests :
        \E tickers \in Orders(EffectiveTickers(r)) :
            \E out \in {TrainEndpoint(market, r, tickers)} :
               /\ req' = r
               /\ trace' = out.trace
               /\ resp' = out.resp
               /\ GLOBAL_MODEL' = IF out.set THEN out.model ELSE GLOBAL_MODEL
               /\ LAST_TRAIN_DF' = IF out.set THEN out.df ELSE LAST_TRAIN_DF
               /\ call' = NoCall
               /\ UNCHANGED <<market, web, threads, ret>>

\* a predict that forgets the model when it cannot answer
PredictForgetting ==
    \E t \in PredictTickers :
        \E out \in {PredictEndpoint(GLOBAL_MODEL, LAST_TRAIN_DF, t)} :
           /\ req' = PredictRequest(t)
           /\ trace' = Trace(<<>>, FALSE, -1, -1)
           /\ resp' = out
           /\ GLOBAL_MODEL' = IF out.status = 200 THEN GLOBAL_MODEL ELSE <<>>
           /\ LAST_TRAIN_DF' = IF out.status = 200 THEN LAST_TRAIN_DF ELSE <<>>
           /\ call' = NoCall
           /\ UNCHANGED <<market, web, threads, ret>>

\* POST /model/predict-next
Predict ==
    \E t \in PredictTickers :
        /\ req' = PredictRequest(t)
        /\ trace' = Trace(<<>>, FALSE, -1, -1)
        /\ resp' = PredictEndpoint(GLOBAL_MODEL, LAST_TRAIN_DF, t)
        /\ call' = NoCall
        /\ UNCHANGED <<market, web, GLOBAL_MODEL, LAST_TRAIN_DF, threads, ret>>

Next == Train \/ Predict

\* The process as its HTTP clients drive it, one request at a time.
Spec == Init /\ [][Next]_vars

\* train_model called on a frame of the caller's own
TrainModelCall ==
    \E f \in DirectFrames :
        \E out \in {TrainModel(f)} :
           /\ req' = TrainModelRequest
           /\ trace' = Trace(<<>>, FALSE, -1, Len(f.rows))
           /\ resp' = Returned(out)
           /\ GLOBAL_MODEL' = IF out.set THEN out.model ELSE GLOBAL_MODEL
           /\ LAST_TRAIN_DF' = IF out.set THEN out.df ELSE LAST_TRAIN_DF
           /\ call' = NoFrameCall("train_model", f)
           /\ UNCHANGED <<market, web, threads, ret>>

NextCalls == Train \/ Predict \/ TrainModelCall

\* The same, with other callers of train_model in the process.
SpecCalls == Init /\ [][NextCalls]_vars

\* ------------------------------------------------------- overlapping calls
\* train_model, lines 42-118: everything up to the two assignments
TrainBegin(i) ==
    /\ trainers[i].pc = "idle"
    /\ \A j \in 1..(i - 1) : trainers[j].pc # "idle"
    /\ \E f \in ConcFrames :
          \E out \in {TrainModel(f)} :
             trainers' = [trainers EXCEPT ![i] =
                             IF out.set
                             THEN [df |-> out.df, model |-> out.model, pc |-> "120"]
                             ELSE [df |-> <<>>, model |-> <<>>, pc |-> "done"]]
    /\ UNCHANGED <<market, web, GLOBAL_MODEL, LAST_TRAIN_DF, req, trace, resp,
                   predictor, modelBy, dfBy, call, ret>>

\* line 120: _GLOBAL_MODEL = (clf, feature_cols)
TrainSetModel(i) ==
    /\ trainers[i].pc = "120"
    /\ GLOBAL_MODEL' = trainers[i].model
    /\ modelBy' = i
    /\ trainers' = [trainers EXCEPT ![i].pc = "121"]
    /\ UNCHANGED <<market, web, LAST_TRAIN_DF, req, trace, resp, predictor, dfBy, call, ret>>

\* line 121: _LAST_TRAIN_DF = df, and the return
TrainSetDf(i) ==
    /\ trainers[i].pc = "121"
    /\ LAST_TRAIN_DF' = trainers[i].df
    /\ dfBy' = i
    /\ trainers' = [trainers EXCEPT ![i].pc = "done"]
    /\ UNCHANGED <<market, web, GLOBAL_MODEL, req, trace, resp, predictor, modelBy, call, ret>>

\* predict_next is entered
PredictBegin ==
    /\ predictor.pc \in {"idle", "done"}
    /\ \E t \in ConcTickers : predictor' = [IdlePredictor EXCEPT !.pc = "138", !.ticker = t]
    /\ UNCHANGED <<market, web, GLOBAL_MODEL, LAST_TRAIN_DF, req, trace, resp,
                   trainers, modelBy, dfBy, call, ret>>

\* line 138, left operand: _GLOBAL_MODEL is None
PredictCheckModel ==
    /\ predictor.pc = "138"
    /\ predictor' = IF Len(GLOBAL_MODEL) = 0
                    THEN [predictor EXCEPT !.pc = "done",
                                           !.out = PredictNext(<<>>, <<>>, predictor.ticker)]
                    ELSE [predictor EXCEPT !.pc = "138b"]
    /\ UNCHANGED <<market, web, GLOBAL_MODEL, LAST_TRAIN_DF, req, trace, resp,
                   trainers, modelBy, dfBy, call, ret>>

\* line 138, right operand: _LAST_TRAIN_DF is None
PredictCheckDf ==
    /\ predictor.pc = "138b"
    /\ predictor' = IF Len(LAST_TRAIN_DF) = 0
                    THEN [predictor EXCEPT !.pc = "done",
                                           !.out = PredictNext(<<>>, <<>>, predictor.ticker)]
                    ELSE [predictor EXCEPT !.pc = "141"]
    /\ UNCHANGED <<market, web, GLOBAL_MODEL, LAST_TRAIN_DF, req, trace, resp,
                   trainers, modelBy, dfBy, call, ret>>

\* line 141: clf, feature_cols = _GLOBAL_MODEL
PredictReadModel ==
    /\ predictor.pc = "141"
    /\ predictor' = [predictor EXCEPT !.pc = "142", !.model = GLOBAL_MODEL,
                                      !.modelBy = modelBy]
    /\ UNCHANGED <<market, web, GLOBAL_MODEL, LAST_TRAIN_DF, req, trace, resp,
                   trainers, modelBy, dfBy, call, ret>>

\* line 142: df = _LAST_TRAIN_DF
PredictReadDf ==
    /\ predictor.pc = "142"
    /\ predictor' = [predictor EXCEPT !.pc = "144", !.df = LAST_TRAIN_DF, !.dfBy = dfBy]
    /\ UNCHANGED <<market, web, GLOBAL_MODEL, LAST_TRAIN_DF, req, trace, resp,
                   trainers, modelBy, dfBy, call, ret>>

\* lines 144-161 on the locals
PredictFinish ==
    /\ predictor.pc = "144"
    /\ predictor' = [predictor EXCEPT
                        !.pc = "done",
                        !.out = PredictNext(predictor.model, predictor.df, predictor.ticker)]
    /\ UNCHANGED <<market, web, GLOBAL_MODEL, LAST_TRAIN_DF, req, trace, resp,
                   trainers, modelBy, dfBy, call, ret>>

NextConc ==
    \/ \E i \in 1..MaxTrainCalls : TrainBegin(i)
    \/ \E i \in 1..MaxTrainCalls : TrainSetModel(i)
    \/ \E i \in 1..MaxTrainCalls : TrainSetDf(i)
    \/ PredictBegin
    \/ PredictCheckModel
    \/ PredictCheckDf
    \/ PredictReadModel
    \/ PredictReadDf
    \/ PredictFinish

\* Calls of the service functions on the worker threads of the server, each
\* step one access to the module globals.
InitConc == Init /\ market.wide

SpecConc == InitConc /\ [][NextConc]_vars

\* ------------------------------------------------- calls on frames
\* Frames handed to the frame functions by a caller of the services.
Reverse(seq) == [i \in 1..Len(seq) |-> seq[Len(seq) + 1 - i]]

\* the rows of ticker t on the days 1.., with the given closes
PriceRows(t, closes) ==
    Strict([i \in 1..Len(closes) |-> (cTicker :> t) @@ (cDate :> i) @@ (cClose :> closes[i])])

\* frames for build_training_frame: A on MaxRows days, B on one or two, in
\* (ticker, date) order or in the reverse of it; one frame without Close
LabelFrames ==
    { Frame(<<cTicker, cDate, cClose>>, IF rev THEN Reverse(rs) ELSE rs) :
        rev \in BOOLEAN,
        rs \in { PriceRows(<<"A">>, ca) \o PriceRows(<<"B">>, cb) :
                    ca \in [1..MaxRows -> {Num(1), Num(2), NaN}],
                    cb \in {<<Num(2), Num(2)>>, <<NaN>>} } }
      \cup { Project(Frame(<<cTicker, cDate, cClose>>, PriceRows(<<"A">>, <<Num(1), Num(2)>>)),
                     <<cTicker, cDate>>) }

\* training_frame_service.build_training_frame called on a frame
BuildTrainingFrameCall ==
    \E f \in LabelFrames :
        /\ call' = NoFrameCall("build_training_frame", f)
        /\ ret' = BuildTrainingFrame(f)
        /\ UNCHANGED <<market, web, GLOBAL_MODEL, LAST_TRAIN_DF, req, trace, resp, threads>>

\* frames for the sentiment build_training_frame: two tickers in and out of
\* order, a frame that has its target_up, one with a "Date" column, and
\* frames without a date, a ticker or a close column
SentimentFrames ==
    LET f == Frame(<<cTicker, cDate, cClose>>,
                   PriceRows(<<"A">>, <<Num(1), Num(2), Num(2)>>) \o PriceRows(<<"B">>, <<Num(2), Num(1)>>))
    IN { f,
         [f EXCEPT !.rows = Reverse(f.rows)],
         Labelled(<<"A">>, <<Num(1), NaN>>),
         RenameCol(f, cDate, Col("Date")),
         Project(f, <<cTicker, cClose>>),
         Project(f, <<cDate, cClose>>),
         Project(f, <<cTicker, cDate>>),
         Frame(<<cTicker, cDate, cClose>>, <<>>) }

Windows == {<<1, 3>>, <<2, 2>>, <<9, 9>>}

\* one daily aggregate, for A on day 2
Daily(cols) ==
    Frame(cols, <<[c \in Range(cols) |->
                     IF c = cTicker THEN <<"A">> ELSE IF c = cDate THEN 2 ELSE Num(1)]>>)

\* sentiment_service.build_training_frame called on a frame
SentimentBuildCall ==
    \E f \in SentimentFrames, win \in Windows :
        \E news \in {Frame(NewsCols, <<>>), Daily(NewsCols)},
           tw \in {Frame(TwCols, <<>>), Daily(TwCols)} :
            /\ call' = Call("sentiment.build_training_frame", f, win[1], win[2], news, tw)
            /\ ret' = SentimentBuildTrainingFrame(f, win[1], win[2], news, tw)
            /\ UNCHANGED <<market, web, GLOBAL_MODEL, LAST_TRAIN_DF, req, trace, resp, threads>>

\* the closes of the longer ticker: rising; one missing; a zero first; all equal
ClosePatterns ==
    { [i \in 1..MaxSeries |-> Num(i)],
      [i \in 1..MaxSeries |-> IF i = 2 THEN NaN ELSE Num(i)],
      [i \in 1..MaxSeries |-> IF i = 1 THEN Num(0) ELSE Num(i)],
      [i \in 1..MaxSeries |-> Num(2)] }

\* its volumes: no volume column (<<>>); all equal; rising; one missing
VolumePatterns ==
    { <<>>,
      [i \in 1..MaxSeries |-> Num(5)],
      [i \in 1..MaxSeries |-> Num(i)],
      [i \in 1..MaxSeries |-> IF i = 3 THEN NaN ELSE Num(i)] }

\* the rows of ticker t on the days 1.., with closes and, when there are, volumes
SeriesRows(t, closes, vols, volCol) ==
    Strict([i \in 1..Len(closes) |->
        IF Len(vols) = 0
        THEN (cTicker :> t) @@ (cDate :> i) @@ (cClose :> closes[i])
        ELSE (cTicker :> t) @@ (cDate :> i) @@ (cClose :> closes[i]) @@ (volCol :> vols[i])])

FirstTwo(vs) == IF Len(vs) = 0 THEN <<>> ELSE SubSeq(vs, 1, 2)

\* frames with a Close column: a long and a short ticker, the long one first
\* or second in ticker order, the rows in (ticker, date) order or reversed
FlatFrames ==
    { Frame(IF Len(vs) = 0 THEN <<cTicker, cDate, cClose>> ELSE <<cTicker, cDate, cClose, vc>>,
            IF rev THEN Reverse(SeriesRows(long, cs, vs, vc)
                                    \o SeriesRows(short, <<Num(3), Num(1)>>, FirstTwo(vs), vc))
            ELSE SeriesRows(short, <<Num(3), Num(1)>>, FirstTwo(vs), vc)
                    \o SeriesRows(long, cs, vs, vc)) :
        cs \in ClosePatterns, vs \in VolumePatterns, vc \in {cVolume},
        rev \in BOOLEAN,
        long \in {<<"B">>}, short \in {<<"A">>, <<"a">>} }
    \cup { Frame(<<cTicker, cDate, cClose, Col("volume")>>,
                 SeriesRows(<<"A">>, cs, [i \in 1..MaxSeries |-> Num(i * i)], Col("volume"))) :
              cs \in ClosePatterns }

\* a frame with its closes under the columns colFor gives the tickers
\* (<<>>: no column for the ticker), null elsewhere
Widen(f, colFor) ==
    LET labels == {colFor[t][1] : t \in {x \in DOMAIN colFor : Len(colFor[x]) > 0}}
        order == CHOOSE q \in [1..Cardinality(labels) -> labels] :
                    \A i, j \in 1..Cardinality(labels) : i # j => q[i] # q[j]
    IN Frame(<<cTicker, cDate>> \o order,
             Strict([i \in 1..Len(f.rows) |->
                 Strict([c \in {cTicker, cDate} \cup labels |->
                     IF c \in {cTicker, cDate} THEN f.rows[i][c]
                     ELSE IF colFor[f.rows[i][cTicker]] = <<c>> THEN f.rows[i][cClose]
                     ELSE NaN])]))

\* frames with the closes under Close_<TICKER> columns: one column per ticker;
\* a lower-case prefix and a lower-case suffix; a ticker without a column; a
\* lower-case ticker; a column that is null on every row
WideFrames ==
    LET ab == Frame(<<cTicker, cDate, cClose>>,
                    SeriesRows(<<"A">>, <<Num(3), Num(1)>>, <<>>, cVolume)
                        \o SeriesRows(<<"B">>, [i \in 1..MaxSeries |-> Num(i)], <<>>, cVolume))
        lower == Frame(<<cTicker, cDate, cClose>>,
                       SeriesRows(<<"a">>, <<Num(3), Num(1)>>, <<>>, cVolume)
                           \o SeriesRows(<<"B">>, <<Num(1), Num(2)>>, <<>>, cVolume)
                           \o SeriesRows(<<"A", "B">>, <<Num(7)>>, <<>>, cVolume))
        nulls == Frame(<<cTicker, cDate, cClose>>,
                       SeriesRows(<<"A">>, <<NaN, NaN>>, <<>>, cVolume)
                           \o SeriesRows(<<"B">>, <<Num(1), Num(2)>>, <<>>, cVolume))
    IN { Widen(ab, (<<"A">> :> <<Sfx("Close", <<"A">>)>>) @@ (<<"B">> :> <<Sfx("Close", <<"B">>)>>)),
         Widen(ab, (<<"A">> :> <<Sfx("close", <<"A">>)>>) @@ (<<"B">> :> <<Sfx("CLOSE", <<"b">>)>>)),
         Widen(ab, (<<"A">> :> <<>>) @@ (<<"B">> :> <<Sfx("Close", <<"B">>)>>)),
         Widen(lower, (<<"a">> :> <<Sfx("Close", <<"A">>)>>) @@ (<<"B">> :> <<Sfx("Close", <<"B">>)>>)
                          @@ (<<"A", "B">> :> <<>>)),
         Widen(nulls, (<<"A">> :> <<Sfx("Close", <<"A">>)>>) @@ (<<"B">> :> <<Sfx("Close", <<"B">>)>>)),
         Widen(nulls, (<<"A">> :> <<Sfx("Close", <<"A">>)>>) @@ (<<"B">> :> <<>>)) }

\* frame f with the columns Volume_A and Volume_B added, each holding the
\* values vols on the rows of its ticker and null elsewhere
WithWideVolume(f, vols) ==
    LET labels == <<Sfx("Volume", <<"A">>), Sfx("Volume", <<"B">>)>>
    IN Frame(f.cols \o labels,
             Strict([i \in 1..Len(f.rows) |->
                 Strict([c \in Range(labels) |->
                            IF c.sfx[1] = f.rows[i][cTicker] THEN vols[f.rows[i][cDate]] ELSE NaN])
                     @@ f.rows[i]]))

\* frames of other shapes: without a ticker, a date or a Close column, with
\* "Ticker" or "Date" for column name, with a lower-case "close", with
\* Close_<TICKER> columns but no ticker column, with Volume_<TICKER> columns
\* that hold values or are null on every row, and a frame without rows
ShapeFrames ==
    LET f == Frame(<<cTicker, cDate, cClose>>,
                   SeriesRows(<<"A">>, <<Num(3), Num(1)>>, <<>>, cVolume)
                       \o SeriesRows(<<"B">>, <<Num(1), Num(2)>>, <<>>, cVolume))
        wide == Widen(f, (<<"A">> :> <<Sfx("Close", <<"A">>)>>) @@ (<<"B">> :> <<Sfx("Close", <<"B">>)>>))
    IN { Project(f, <<cDate, cClose>>),
         Project(f, <<cTicker, cClose>>),
         Project(f, <<cTicker, cDate>>),
         RenameCol(f, cTicker, Col("Ticker")),
         RenameCol(f, cDate, Col("Date")),
         RenameCol(f, cClose, Col("close")),
         Project(wide, <<cDate, Sfx("Close", <<"A">>), Sfx("Close", <<"B">>)>>),
         WithWideVolume(f, <<Num(4), Num(9)>>),
         WithWideVolume(f, <<NaN, NaN>>),
         Frame(<<cTicker, cDate, cClose, cVolume>>, <<>>) }

\* feature_service.add_price_features called on a frame
AddPriceFeaturesCall ==
    \E f \in FlatFrames \cup WideFrames \cup ShapeFrames :
        /\ call' = NoFrameCall("add_price_features", f)
        /\ ret' = AddPriceFeatures(f)
        /\ UNCHANGED <<market, web, GLOBAL_MODEL, LAST_TRAIN_DF, req, trace, resp, threads>>

NextFrames ==
    \/ BuildTrainingFrameCall
    \/ SentimentBuildCall
    \/ AddPriceFeaturesCall

InitFrames == Init /\ market.wide

\* The frame functions of the services, called one after the other.
SpecFrames == InitFrames /\ [][NextFrames]_vars

\* ------------------------------------------------------------------- feeds
\* the items of the vendors' answers
Articles ==
    << Article(<<2>>, <<"Gains">>, <<>>),
       Article(<<2>>, <<"lawsuit">>, <<"down">>),
       Article(<<>>, <<"gains", "up", "down">>, <<"meeting">>),
       Article(<<3>>, <<"meeting">>, <<"losses", "good">>) >>

Tweets ==
    << Tweet(<<2>>, <<"gains", "up", "down">>),
       Tweet(<<2>>, <<"lawsuit">>),
       Tweet(<<>>, <<"losses", "good">>),
       Tweet(<<1>>, <<"Gains">>) >>

\* what a news source can answer for a ticker
NewsAnswers ==
    { Answer("ok", <<>>), Answer("ok", <<Articles[1]>>), Answer("ok", <<Articles[1], Articles[2]>>),
      Answer("ok", <<Articles[3], Articles[4]>>),
      Answer("notok", <<>>), Answer("status", <<>>), Answer("raise", <<>>) }

\* what the social source can answer for a ticker
TwitterAnswers ==
    { Answer("ok", <<>>), Answer("ok", <<Tweets[1]>>), Answer("ok", <<Tweets[1], Tweets[2]>>),
      Answer("ok", <<Tweets[3], Tweets[4]>>),
      Answer("status", <<>>), Answer("raise", <<>>) }

\* every credential configured and every source answering with items
BaseWeb ==
    Web(Keys(TRUE, TRUE, TRUE),
        [t \in KnownTickers |-> Answer("ok", IF t = <<"A">> THEN <<Articles[1]>> ELSE <<Articles[2]>>)],
        [t \in KnownTickers |-> Answer("ok", IF t = <<"A">> THEN <<Articles[4]>> ELSE <<Articles[3]>>)],
        [t \in KnownTickers |-> Answer("ok", IF t = <<"A">> THEN <<Tweets[1]>> ELSE <<Tweets[4]>>)])

\* the vendors the model is checked against: as in BaseWeb but for one
\* credential, for the social source's answer for one ticker, or for the
\* two news sources' answers for B
Webs ==
    {BaseWeb}
        \cup {[BaseWeb EXCEPT !.key[s] = FALSE] : s \in {"newsapi", "mediastack", "twitter"}}
        \cup {[BaseWeb EXCEPT !.twitter[t] = a] : t \in KnownTickers, a \in TwitterAnswers}
        \cup {[BaseWeb EXCEPT !.newsapi[<<"B">>] = a, !.mediastack[<<"B">>] = b] :
                  a \in NewsAnswers,
                  b \in {Answer("ok", <<>>), Answer("ok", <<Articles[3]>>),
                         Answer("status", <<>>), Answer("raise", <<>>)}}

TickerLists == { << <<"A">> >>, << <<"B">>, <<"A">> >> }

\* price frames for the build on the vendors' answers: two tickers, the same
\* out of order, and a frame without a date column
FeedFrames ==
    LET f == Frame(<<cTicker, cDate, cClose>>,
                   PriceRows(<<"A">>, <<Num(1), Num(2), Num(2)>>) \o PriceRows(<<"B">>, <<Num(2), Num(1)>>))
    IN {f, [f EXCEPT !.rows = Reverse(f.rows)], Project(f, <<cTicker, cClose>>)}

FeedRest == <<market, web, GLOBAL_MODEL, LAST_TRAIN_DF, req, trace, resp, threads>>

\* news_service.fetch_newsapi_news called for a ticker
FetchNewsapiNewsCall ==
    \E t \in KnownTickers, win \in Windows :
        /\ call' = WebCall("fetch_newsapi_news", <<t>>, NoFrame, win[1], win[2], NoFrame, NoFrame)
        /\ ret' = FetchNewsapiNews(web, t, win[1], win[2])
        /\ UNCHANGED FeedRest

\* news_service.fetch_mediastack_news called for a ticker
FetchMediastackNewsCall ==
    \E t \in KnownTickers, win \in Windows :
        /\ call' = WebCall("fetch_mediastack_news", <<t>>, NoFrame, win[1], win[2], NoFrame, NoFrame)
        /\ ret' = FetchMediastackNews(web, t, win[1], win[2])
        /\ UNCHANGED FeedRest

\* twitter_service._fetch_twitter_for_single called for a ticker
FetchTwitterForSingleCall ==
    \E t \in KnownTickers, win \in Windows :
        /\ call' = WebCall("_fetch_twitter_for_single", <<t>>, NoFrame, win[1], win[2], NoFrame, NoFrame)
        /\ ret' = FetchTwitterForSingle(web, t, win[1], win[2])
        /\ UNCHANGED FeedRest

\* news_service.fetch_news_for_tickers called
FetchNewsForTickersCall ==
    \E tickers \in TickerLists, win \in Windows :
        /\ call' = WebCall("fetch_news_for_tickers", tickers, NoFrame, win[1], win[2], NoFrame, NoFrame)
        /\ ret' = FetchNewsForTickers(web, tickers, win[1], win[2])
        /\ UNCHANGED FeedRest

\* twitter_service.fetch_twitter_for_tickers called
FetchTwitterForTickersCall ==
    \E tickers \in TickerLists, win \in Windows :
        /\ call' = WebCall("fetch_twitter_for_tickers", tickers, NoFrame, win[1], win[2], NoFrame, NoFrame)
        /\ ret' = FetchTwitterForTickers(web, tickers, win[1], win[2])
        /\ UNCHANGED FeedRest

\* sentiment_service.build_training_frame called on a frame, the vendors answering
BuildTrainingFrameOnWebCall ==
    \E tickers \in TickerLists, win \in Windows :
        \E news \in {DailyOrEmpty(FetchNewsForTickers(web, tickers, win[1], win[2]), NewsCols)},
           tw \in {DailyOrEmpty(FetchTwitterForTickers(web, tickers, win[1], win[2]), TwCols)} :
            \E f \in FeedFrames :
                /\ call' = WebCall("sentiment.build_training_frame", tickers, f, win[1], win[2], news, tw)
                /\ ret' = SentimentBuildTrainingFrame(f, win[1], win[2], news, tw)
                /\ UNCHANGED FeedRest

NextFeeds ==
    \/ FetchNewsapiNewsCall
    \/ FetchMediastackNewsCall
    \/ FetchTwitterForSingleCall
    \/ FetchNewsForTickersCall
    \/ FetchTwitterForTickersCall
    \/ BuildTrainingFrameOnWebCall

\* The fetches of the two sentiment services and the frame built on them,
\* called one after the other.
InitFeeds == \E w \in Webs : InitOn(w) /\ market.wide

SpecFeeds == InitFeeds /\ [][NextFeeds]_vars

\* ------------------------------------------------------------------ claims
\* the pieces of phrase appear, in order and side by side, in the detail
Contains(detail, phrase) ==
    \E i \in 0..(Len(detail.text) - Len(phrase)) :
        SubSeq(detail.text, i + 1, i + Len(phrase)) = phrase

Untrained == GLOBAL_MODEL = <<>> /\ LAST_TRAIN_DF = <<>>

Trained == GLOBAL_MODEL # <<>> /\ LAST_TRAIN_DF # <<>>

StateUnchanged == GLOBAL_MODEL' = GLOBAL_MODEL /\ LAST_TRAIN_DF' = LAST_TRAIN_DF

\* the trimmed, uppercased, non-empty strings of the ticker and tickers fields
NormalisedStrings(r) ==
    LET given == (IF Len(r.ticker) > 0 THEN {r.ticker[1]} ELSE {})
                     \cup (IF Len(r.tickers) > 0 THEN Range(r.tickers[1]) ELSE {})
    IN {Upper(Strip(x)) : x \in given} \ {<<>>}

\* the price frame a train request with valid tickers and dates is answered from
FetchedFor(m, r, tr) == FetchPrices(m, tr.tickers, r.start, r.end)

\* a train request that passed the ticker and date validation
PassedValidation(r, tr) == r.kind = "train" /\ Len(tr.tickers) > 0 /\ r.start < r.end

\* C1: after a train request answered 200 that named ticker T, a following
\* predict-next request for T is answered 200 with prob_up in [0, 1]
\* (probabilities are in percent).
C1_PredictAfterTrain ==
    [][(/\ req.kind = "train"
        /\ resp.status = 200
        /\ req'.kind = "predict"
        /\ \E i \in 1..Len(resp.tickers) : resp.tickers[i] = req'.ticker[1])
       => (resp'.status = 200 /\ resp'.prob \in 0..100)]_vars

\* C2: in the Untrained state every predict, for every ticker, is answered 400
\* with a detail containing 'Model has not been trained yet', and the state
\* stays Untrained.
C2_UntrainedPredictFails ==
    [][(Untrained /\ req'.kind = "predict")
       => (/\ resp'.status = 400
           /\ Contains(resp'.detail, <<"Model has not been trained yet">>)
           /\ GLOBAL_MODEL' = <<>>
           /\ LAST_TRAIN_DF' = <<>>)]_vars

C2_Witness ==
    /\ Untrained
    /\ req.kind = "predict"
    /\ resp.status = 400
    /\ Contains(resp.detail, <<"Model has not been trained yet">>)

\* C3: in the Trained state a predict for a ticker T with no row in the
\* retained frame is answered 400 with a detail containing "No training
\* samples found for ticker 'T'", and the model state is unchanged.
C3_UnknownTickerFails ==
    [][(/\ Trained
        /\ req'.kind = "predict"
        /\ \A i \in 1..Len(LAST_TRAIN_DF[1].rows) :
              LAST_TRAIN_DF[1].rows[i][cTicker] # req'.ticker[1])
       => (/\ resp'.status = 400
           /\ Contains(resp'.detail, <<"No training samples found for ticker '", "{ticker}", "'">>)
           /\ resp'.detail.t = req'.ticker[1]
           /\ StateUnchanged)]_vars

C3_Witness ==
    /\ Trained
    /\ req.kind = "predict"
    /\ req.ticker = << <<"a">> >>
    /\ \E i \in 1..Len(LAST_TRAIN_DF[1].rows) : LAST_TRAIN_DF[1].rows[i][cTicker] = <<"A">>
    /\ resp.status = 400
    /\ resp.detail.t = <<"a">>

\* C4: a predict that overlaps a train replacing an existing model reads the
\* (classifier, feature_columns) pair and the retained frame of one and the
\* same train call.
C4_PredictReadsOneTrain ==
    (predictor.pc \in {"144", "done"} /\ predictor.modelBy # 0 /\ predictor.dfBy # 0)
        => predictor.modelBy = predictor.dfBy

\* C5: a train request with a non-empty ticker set and start_date < end_date
\* whose price fetch returned at least 2 trading days is answered 200 with
\* train_rows <= price_rows and roc_auc null or in [0, 1] (in percent).
C5_TwoTradingDaysTrain ==
    (/\ PassedValidation(req, trace)
     /\ LET prices == FetchedFor(market, req, trace)
        IN Cardinality({prices.rows[i][cDate] : i \in 1..Len(prices.rows)}) >= 2)
    => (/\ resp.status = 200
        /\ resp.train_rows <= resp.price_rows
        /\ (resp.roc_auc = <<>> \/ resp.roc_auc[1] \in 0..100))

\* C6: when add_price_features or the frame builder fails during a train
\* request, the answer is 400 with the message of the error, never an
\* unhandled error, and the model state is unchanged.
C6_FeatureOrBuilderFailureIs400 ==
    [][(/\ PassedValidation(req', trace')
        /\ ~IsEmpty(FetchedFor(market', req', trace'))
        /\ LET feats == AddPriceFeatures(FetchedFor(market', req', trace'))
           IN ~feats.ok \/ ~BuildTrainingFrame(feats.df).ok)
       => LET feats == AddPriceFeatures(FetchedFor(market', req', trace'))
          IN /\ resp'.status = 400
             /\ resp'.detail = IF feats.ok THEN BuildTrainingFrame(feats.df).msg ELSE feats.msg
             /\ StateUnchanged]_vars

\* the close of a price row, flat or under its ticker's name
CloseOf(r) == IF cClose \in DOMAIN r THEN r[cClose] ELSE r[Sfx("Close", r[cTicker])]

\* the rows a training frame would hold: the price rows followed, in their
\* ticker's dates, by a row with a close
WouldTrainOn(prices) ==
    Cardinality({i \in 1..Len(prices.rows) :
        \E j \in 1..Len(prices.rows) :
            /\ prices.rows[j][cTicker] = prices.rows[i][cTicker]
            /\ prices.rows[j][cDate] > prices.rows[i][cDate]
            /\ \A x \in 1..Len(prices.rows) :
                  (prices.rows[x][cTicker] = prices.rows[i][cTicker]
                      /\ prices.rows[x][cDate] > prices.rows[i][cDate])
                  => prices.rows[x][cDate] >= prices.rows[j][cDate]
            /\ ~IsNaN(CloseOf(prices.rows[j]))})

\* a train request whose price frame is non-empty and gets its features
FeaturesBuilt(m, r, tr) ==
    /\ PassedValidation(r, tr)
    /\ ~IsEmpty(FetchedFor(m, r, tr))
    /\ AddPriceFeatures(FetchedFor(m, r, tr)).ok

\* the detail of the endpoint's own row check, for n training rows
TooFewDetail(n) ==
    MsgN(<<"Not enough rows to train a model (n=", "{n}", "). Need at least 2.">>, n)

\* the detail of the builder's error on a frame left without rows
NoRowsDetail == Msg(<<"No rows available to build training frame.">>)

\* a train request that called the price fetch and was answered 400 with one
\* of the two details leaves the model state as it was
TooFewKeepsState ==
    (/\ req'.kind = "train"
     /\ trace'.fetched
     /\ resp'.status = 400
     /\ resp'.detail \in {TooFewDetail(0), TooFewDetail(1), NoRowsDetail})
    => StateUnchanged

\* C7 as stated: with a non-empty price fetch and a training frame of k < 2
\* rows, k = 0 included, the answer is 400 'Not enough rows to train a model
\* (n=k). Need at least 2.' and the model state is unchanged.
C7_TooFewRowsAsStated ==
    /\ [](  (FeaturesBuilt(market, req, trace) /\ WouldTrainOn(FetchedFor(market, req, trace)) < 2)
            => (/\ resp.status = 400
                /\ resp.detail = TooFewDetail(WouldTrainOn(FetchedFor(market, req, trace)))))
    /\ [][TooFewKeepsState]_vars

\* C7: with a non-empty price fetch whose features are built, a training frame
\* of one row is answered 400 'Not enough rows to train a model (n=1). Need at
\* least 2.', and one of no rows is answered 400 with the builder's 'No rows
\* available to build training frame.'; the model state is unchanged in both.
C7_TooFewRows ==
    /\ [](  (FeaturesBuilt(market, req, trace) /\ WouldTrainOn(FetchedFor(market, req, trace)) < 2)
            => (/\ resp.status = 400
                /\ resp.detail = IF WouldTrainOn(FetchedFor(market, req, trace)) = 1
                                 THEN TooFewDetail(1) ELSE NoRowsDetail))
    /\ [][TooFewKeepsState]_vars

C7_Witness ==
    /\ FeaturesBuilt(market, req, trace)
    /\ WouldTrainOn(FetchedFor(market, req, trace)) = 0
    /\ resp.status = 400
    /\ resp.detail = NoRowsDetail
    /\ Trained

\* C8: a train request is answered 400 'At least one ticker is required'
\* exactly when no trimmed, uppercased, non-empty string comes out of its
\* ticker and tickers fields, whatever its dates; otherwise the effective
\* ticker list holds each such string exactly once.
C8_TickerRule ==
    req.kind = "train"
    => /\ (resp.status = 400 /\ Contains(resp.detail, <<"At least one ticker is required">>))
              <=> NormalisedStrings(req) = {}
       /\ NormalisedStrings(req) # {}
              => /\ Range(trace.tickers) = NormalisedStrings(req)
                 /\ Len(trace.tickers) = Cardinality(NormalisedStrings(req))

C8_Witness ==
    /\ req.kind = "train"
    /\ req.ticker = << <<" ">> >>
    /\ req.start > req.end
    /\ NormalisedStrings(req) = {}
    /\ resp.status = 400
    /\ Contains(resp.detail, <<"At least one ticker is required">>)

\* C9: a train request with a non-empty effective ticker set is answered 400
\* 'start_date must be before end_date' when start_date > end_date and 400
\* 'Not enough rows to train a model (n=1). Need at least 2.' when
\* start_date = end_date; in both cases no price fetch is issued and the model
\* state is unchanged.
C9_DateRule ==
    [][(req'.kind = "train" /\ NormalisedStrings(req') # {} /\ req'.start >= req'.end)
       => (/\ resp'.status = 400
           /\ resp'.detail =
                 IF req'.start > req'.end
                 THEN Msg(<<"start_date must be before end_date">>)
                 ELSE TooFewDetail(1)
           /\ ~trace'.fetched
           /\ StateUnchanged)]_vars

C9_Witness ==
    /\ req.kind = "train"
    /\ NormalisedStrings(req) # {}
    /\ req.start = req.end
    /\ resp.status = 400
    /\ resp.detail.n = 1
    /\ ~trace.fetched
    /\ Trained

\* C10: a train_model call that raises, or a train request not answered 200,
\* leaves _GLOBAL_MODEL and _LAST_TRAIN_DF as they were, so that an Untrained
\* process stays Untrained; and the answer to a predict is a function of these
\* two and of the ticker alone, so that every predict is answered after the
\* failure as it was before.
C10_FailedTrainKeepsState ==
    /\ [][((req'.kind = "train" /\ resp'.status # 200)
              \/ (req'.kind = "train_model" /\ resp'.exc # ""))
           => (StateUnchanged /\ (Untrained => Untrained'))]_vars
    /\ [](req.kind = "predict"
            => resp = PredictEndpoint(GLOBAL_MODEL, LAST_TRAIN_DF, req.ticker[1]))

C10_Witness ==
    /\ Trained
    /\ req.kind = "train_model"
    /\ resp.exc = "ValueError"
    /\ Contains(resp.detail, <<"No expected feature columns found in training DataFrame">>)

\* the tickers that have a row in the retained frame
RetainedTickers ==
    {LAST_TRAIN_DF[1].rows[i][cTicker] :
        i \in {j \in 1..Len(LAST_TRAIN_DF[1].rows) : cTicker \in DOMAIN LAST_TRAIN_DF[1].rows[j]}}

\* the frame a train request answered 200 was trained on, from the request alone
FrameOfRequest(m, r, tr) ==
    TrainModel(BuildTrainingFrame(AddPriceFeatures(FetchedFor(m, r, tr)).df).df).df

\* the answer is the unknown-ticker error for t
UnknownTickerAnswer(a, t) ==
    /\ a.status = 400
    /\ Contains(a.detail, <<"No training samples found for ticker '", "{ticker}", "'">>)
    /\ a.detail.t = t

\* C11: a successful train replaces the whole model state.  After a train
\* request answered 200 the retained frame is the one built from that request
\* alone and holds rows of its tickers only, so that a predict for a ticker
\* outside them, trained on before or not, is answered with the unknown-ticker
\* error; the classifier and the feature columns held are always those fitted
\* on the retained frame; and a predict is answered from these values alone
\* and changes none of them.
C11_TrainReplacesState ==
    /\ []((req.kind = "train" /\ resp.status = 200)
             => /\ Trained
                /\ LAST_TRAIN_DF = FrameOfRequest(market, req, trace)
                /\ RetainedTickers \subseteq Range(resp.tickers)
                /\ \A t \in PredictTickers \ Range(resp.tickers) :
                      UnknownTickerAnswer(PredictEndpoint(GLOBAL_MODEL, LAST_TRAIN_DF, t), t))
    /\ [](Trained => /\ TrainModel(LAST_TRAIN_DF[1]).ok
                      /\ GLOBAL_MODEL = TrainModel(LAST_TRAIN_DF[1]).model)
    /\ [][req'.kind = "predict"
            => (/\ StateUnchanged
                /\ resp' = PredictEndpoint(GLOBAL_MODEL', LAST_TRAIN_DF', req'.ticker[1]))]_vars

\* a predict for B answered with the unknown-ticker error while the state
\* retained is that of a train on A alone
C11_Witness ==
    /\ Trained
    /\ RetainedTickers = {<<"A">>}
    /\ req.kind = "predict"
    /\ req.ticker = << <<"B">> >>
    /\ UnknownTickerAnswer(resp, <<"B">>)

\* the row of rows that follows r among the rows of r's ticker, in date order
FollowersOf(rows, r) ==
    {x \in Range(rows) :
        /\ x[cTicker] = r[cTicker]
        /\ x[cDate] > r[cDate]
        /\ \A z \in Range(rows) :
              (z[cTicker] = r[cTicker] /\ z[cDate] > r[cDate]) => z[cDate] >= x[cDate]}

\* a row without its target_up
Unlabelled(r) == [c \in (DOMAIN r) \ {cTarget} |-> r[c]]

\* C12: the frame build_training_frame returns holds, once each, exactly the
\* input rows that are followed, among the rows of their ticker in date
\* order, by a row with a non-null Close (so never the last row of a ticker),
\* and the target_up of each is 1 when the Close of that following row is
\* greater than its own and 0 otherwise.
C12_LabelsFromNextClose ==
    (call.fn = "build_training_frame" /\ ret.ok)
    => /\ {Unlabelled(ret.df.rows[i]) : i \in 1..Len(ret.df.rows)}
             = {r \in Range(call.df.rows) :
                   \E x \in FollowersOf(call.df.rows, r) : ~IsNaN(x[cClose])}
       /\ \A i, j \in 1..Len(ret.df.rows) : ret.df.rows[i] = ret.df.rows[j] => i = j
       /\ \A i \in 1..Len(ret.df.rows) :
             \A x \in FollowersOf(call.df.rows, Unlabelled(ret.df.rows[i])) :
                 ret.df.rows[i][cTarget] =
                     IF Greater(x[cClose], ret.df.rows[i][cClose]) THEN Num(1) ELSE Num(0)

\* a frame given with the rows of B first: a row of A followed by an equal
\* close is labelled 0, the last row of A has a greater close than the first
\* of B, and the last row of each ticker is left out
C12_Witness ==
    /\ call.fn = "build_training_frame"
    /\ ret.ok
    /\ call.df.rows[1][cTicker] = <<"B">>
    /\ \E i \in 1..Len(ret.df.rows) :
          /\ ret.df.rows[i][cTicker] = <<"A">>
          /\ ret.df.rows[i][cTarget] = Num(0)
          /\ \E x \in FollowersOf(call.df.rows, Unlabelled(ret.df.rows[i])) :
                x[cClose] = ret.df.rows[i][cClose]
    /\ \E i \in 1..Len(ret.df.rows) : ret.df.rows[i][cTicker] = <<"B">>
    /\ Len(ret.df.rows) < Len(call.df.rows) - 1

\* C13: the sentiment build_training_frame, given a frame without target_up,
\* returns no row that is the last of its ticker in the input; every row it
\* returns is followed, in its ticker, by a row with a close.
C13_SentimentDropsLastRow ==
    (/\ call.fn = "sentiment.build_training_frame"
     /\ ret.ok
     /\ ~HasCol(call.df, cTarget)
     /\ HasCol(call.df, cDate))
    => \A i \in 1..Len(ret.df.rows) :
          \E x \in Range(call.df.rows) :
              /\ x[cTicker] = ret.df.rows[i][cTicker]
              /\ x[cDate] > ret.df.rows[i][cDate]
              /\ ~IsNaN(x[cClose])

\* the rows of the returned frame
Returned_rows == Range(ret.df.rows)

\* the position of row o in the date-sorted series of its ticker, from 1
PositionOf(o, rows) ==
    1 + Cardinality({x \in rows : x[cTicker] = o[cTicker] /\ x[cDate] < o[cDate]})

\* the row k places before o in the series of its ticker
Before(o, rows, k) ==
    CHOOSE x \in rows :
        x[cTicker] = o[cTicker] /\ PositionOf(x, rows) = PositionOf(o, rows) - k

\* now / then - 1 as the frame shows it: null when a close is missing or the
\* quotient is not a finite number
ExpectedReturn(now, then) ==
    IF now.k # "num" \/ then.k # "num" \/ then.n = 0 THEN NaN
    ELSE Rat(now.n * then.d - then.n * now.d, then.n * now.d)

\* C14: in the frame add_price_features returns, ret_1d is null on the first
\* row of every ticker's date-sorted series and ret_5d on its first five rows,
\* wherever the ticker's rows stand in the frame; later, ret_1d and ret_5d are
\* the returns on the close 1 and 5 rows earlier of the same ticker.
C14_ReturnsPerTicker ==
    (call.fn = "add_price_features" /\ ret.ok)
    => \A o \in Returned_rows :
          /\ PositionOf(o, Returned_rows) = 1 => IsNaN(o[cRet1])
          /\ PositionOf(o, Returned_rows) <= 5 => IsNaN(o[cRet5])
          /\ PositionOf(o, Returned_rows) > 1
                => o[cRet1] = ExpectedReturn(o[cClose], Before(o, Returned_rows, 1)[cClose])
          /\ PositionOf(o, Returned_rows) > 5
                => o[cRet5] = ExpectedReturn(o[cClose], Before(o, Returned_rows, 5)[cClose])

\* rows of A stand before those of B in the frame returned; the first row of
\* B has no ret_1d, its fifth no ret_5d, and its sixth has a ret_5d
C14_Witness ==
    /\ call.fn = "add_price_features"
    /\ ret.ok
    /\ ret.df.rows[1][cTicker] = <<"A">>
    /\ \E o \in Returned_rows :
          /\ o[cTicker] = <<"B">>
          /\ PositionOf(o, Returned_rows) = 1
          /\ IsNaN(o[cRet1])
    /\ \E o \in Returned_rows :
          /\ o[cTicker] = <<"B">>
          /\ PositionOf(o, Returned_rows) = 5
          /\ IsNaN(o[cRet5])
          /\ ~IsNaN(o[cRet1])
    /\ \E o \in Returned_rows :
          /\ o[cTicker] = <<"B">>
          /\ PositionOf(o, Returned_rows) = 6
          /\ o[cRet5] = Num(5)

\* C15: in the frame add_price_features returns, vol_5d and vol_21d are
\* non-null on every row, the first of a series included, of every ticker that
\* has a row with a non-null close.
C15_VolatilityNeverNull ==
    (call.fn = "add_price_features" /\ ret.ok)
    => \A o \in Returned_rows :
          (\E x \in Returned_rows : x[cTicker] = o[cTicker] /\ ~IsNaN(x[cClose]))
          => (~IsNaN(o[cVol5]) /\ ~IsNaN(o[cVol21]))

\* the frame handed to add_price_features has a volume column, under one of
\* the two names
HasVolume(df) == HasCol(df, cVolume) \/ HasCol(df, Col("volume"))

\* C16: in the frame add_price_features returns, volume_z is a finite number
\* on every row, never null and never infinite: 0.0 on the first row of a
\* ticker, and 0.0 on every row when the frame has no volume column.
C16_VolumeZFinite ==
    (call.fn = "add_price_features" /\ ret.ok)
    => \A o \in Returned_rows :
          /\ o[cVolZ].k \notin {"nan", "inf"}
          /\ PositionOf(o, Returned_rows) = 1 => o[cVolZ] = Num(0)
          /\ ~HasVolume(call.df) => o[cVolZ] = Num(0)

\* the columns named Close_<suffix>, the prefix in any case
SuffixedCloses(df) == {c \in Range(df.cols) : LowerBase(c.base) = "close" /\ Len(c.sfx) > 0}

\* those whose suffix is the ticker of row r, case apart
ClosesFor(df, r) == {c \in SuffixedCloses(df) : Upper(c.sfx[1]) = Upper(r[cTicker])}

\* add_price_features was called on a frame without Close, with Close_<TICKER>
\* columns and a ticker column
CloseIsSuffixed ==
    /\ call.fn = "add_price_features"
    /\ ~HasCol(call.df, cClose)
    /\ HasCol(call.df, cTicker)
    /\ SuffixedCloses(call.df) # {}

\* the row of the input that row o of the output comes from
InputRowOf(o) ==
    CHOOSE r \in Range(call.df.rows) : r[cTicker] = o[cTicker] /\ r[cDate] = o[cDate]

\* the frame returned has one Close column: on every row the value of the
\* Close_<TICKER> column of the row's ticker, null where the ticker has none
CloseRebuilt ==
    /\ ret.ok
    /\ Cardinality({i \in 1..Len(ret.df.cols) : ret.df.cols[i] = cClose}) = 1
    /\ \A o \in Returned_rows :
          IF ClosesFor(call.df, o) = {} THEN IsNaN(o[cClose])
          ELSE \E c \in ClosesFor(call.df, o) : o[cClose] = InputRowOf(o)[c]

\* some row has a value in the Close_<TICKER> column of its ticker
SomeCloseGiven ==
    \E r \in Range(call.df.rows) : \E c \in ClosesFor(call.df, r) : ~IsNaN(r[c])

\* C17 as stated: on a frame without Close that has Close_<TICKER> columns
\* and a ticker column, normalization always produces the Close column.
C17_CloseFromSuffixedAsStated == CloseIsSuffixed => CloseRebuilt

\* C17: on a frame without Close that has Close_<TICKER> columns and a ticker
\* column, when some row has a value in the column of its ticker,
\* add_price_features returns a frame with one Close column that holds, on
\* every row, the value of the column whose suffix is the row's ticker (case
\* apart), and null on the rows of a ticker without such a column; when no
\* row has a value there, no Close is produced and the call fails with the
\* missing-columns error for Close.
C17_CloseFromSuffixed ==
    CloseIsSuffixed
    => IF SomeCloseGiven THEN CloseRebuilt
       ELSE /\ ~ret.ok
            /\ ret.exc = "ValueError"
            /\ ret.msg.cols = {"Close"}

\* rows of ticker a take their close from Close_A, and the rows of a ticker
\* without a column have a null Close
C17_Witness ==
    /\ CloseIsSuffixed
    /\ CloseRebuilt
    /\ \E o \in Returned_rows :
          /\ o[cTicker] = <<"a">>
          /\ o[cClose] = Num(3)
          /\ Sfx("Close", <<"A">>) \in ClosesFor(call.df, o)
    /\ \E o \in Returned_rows : ClosesFor(call.df, o) = {} /\ IsNaN(o[cClose])

\* the step is a train request with the body of the train request before it
\* (the vendor is the same throughout, so the fetches answer the same)
TrainRepeated == req.kind = "train" /\ req'.kind = "train" /\ req' = req

\* C18: a train request that follows a train request of the same body is
\* answered with the same status, train_rows and price_rows, and when they
\* succeed the model state it leaves has the same feature_cols and the same
\* retained rows as the state the first one left; when they fail both leave
\* the state alone.
C18_TrainIdempotent ==
    [][TrainRepeated
         => /\ resp'.status = resp.status
            /\ resp'.train_rows = resp.train_rows
            /\ resp'.price_rows = resp.price_rows
            /\ resp'.status = 200
                  => /\ Trained /\ Trained'
                     /\ GLOBAL_MODEL'[1].feature_cols = GLOBAL_MODEL[1].feature_cols
                     /\ LAST_TRAIN_DF'[1].rows = LAST_TRAIN_DF[1].rows
            /\ resp'.status # 200 => StateUnchanged]_vars

\* a train of two tickers has succeeded on a list in the order B, A: the
\* same body can be trained again with the list in the order A, B
C18_Witness ==
    /\ req.kind = "train"
    /\ resp.status = 200
    /\ trace.tickers = << <<"B">>, <<"A">> >>
    /\ resp.train_rows >= 2
    /\ RetainedTickers = {<<"A">>, <<"B">>}

\* the rows train_model fitted on, and the rows it held out: the split of
\* the retained frame at the number of rows the classifier was fitted on
FittingRows == SubSeq(LAST_TRAIN_DF[1].rows, 1, Len(GLOBAL_MODEL[1].clf.y))

HeldOutRows ==
    SubSeq(LAST_TRAIN_DF[1].rows, Len(GLOBAL_MODEL[1].clf.y) + 1, Len(LAST_TRAIN_DF[1].rows))

\* C19: after a train request answered 200, no row the classifier was fitted
\* on has a date later than the date of a held-out row.
C19_SplitRespectsTime ==
    (req.kind = "train" /\ resp.status = 200)
    => /\ Len(HeldOutRows) = TestSize(Len(LAST_TRAIN_DF[1].rows))
       /\ \A f \in Range(FittingRows) : \A h \in Range(HeldOutRows) : f[cDate] <= h[cDate]

\* the days of the last train request's window on which the vendor returned
\* a price for ticker t
PricedDays(t) ==
    LET fetched == RowsOf(FetchPrices(market, trace.tickers, req.start, req.end), t)
        close == IF market.wide THEN Sfx("Close", t) ELSE cClose
    IN {fetched[i][cDate] : i \in {j \in 1..Len(fetched) : ~IsNaN(fetched[j][close])}}

\* the row predict_next reads for ticker t: the last of its retained rows by date
PredictedRow(t) ==
    LET dfT == SortRows(RowsOf(LAST_TRAIN_DF[1], t), FALSE)
    IN dfT[Len(dfT)]

\* C20: after a train request answered 200, the row predict reads for a
\* ticker of the retained frame is the row of the latest day on which the
\* fetch returned a price for that ticker.
C20_PredictUsesLatestRow ==
    (req.kind = "train" /\ resp.status = 200)
    => \A t \in RetainedTickers : \A d \in PricedDays(t) : d <= PredictedRow(t)[cDate]

\* the retained rows of ticker t, and those of them with the maximum date
RetainedRowsOf(t) ==
    {r \in Range(LAST_TRAIN_DF[1].rows) : cTicker \in DOMAIN r /\ r[cTicker] = t}

LatestRowsOf(t) ==
    {r \in RetainedRowsOf(t) : \A q \in RetainedRowsOf(t) : q[cDate] <= r[cDate]}

\* row r on the stored feature_cols, a null read as 0.0
OnFeatureCols(r) ==
    Strict([c \in Range(GLOBAL_MODEL[1].feature_cols) |->
               IF r[c].k = "nan" THEN Num(0) ELSE r[c]])

\* C21: a predict for ticker T answered 200 returns what the stored
\* classifier gives on one row: the one retained row of T with the maximum
\* date, on the stored feature_cols and with nulls read as 0.0.
C21_PredictReadsLatestRow ==
    (req.kind = "predict" /\ resp.status = 200)
    => /\ Trained
       /\ Cardinality(LatestRowsOf(req.ticker[1])) = 1
       /\ \A r \in LatestRowsOf(req.ticker[1]) :
             resp.prob = ProbaUp(GLOBAL_MODEL[1].clf, OnFeatureCols(r))

\* a predict answered 200 for a ticker that has an earlier row on which the
\* classifier gives another value, a null feature in the row read, and rows
\* of another ticker in the frame
C21_Witness ==
    /\ req.kind = "predict"
    /\ resp.status = 200
    /\ \E r \in RetainedRowsOf(req.ticker[1]) \ LatestRowsOf(req.ticker[1]) :
          ProbaUp(GLOBAL_MODEL[1].clf, OnFeatureCols(r)) # resp.prob
    /\ \E r \in LatestRowsOf(req.ticker[1]) :
          \E c \in Range(GLOBAL_MODEL[1].feature_cols) : IsNaN(r[c])
    /\ RetainedTickers \ {req.ticker[1]} # {}

\* the rows of the frame handed to train_model that have a label
LabelledInput == SelectSeq(call.df.rows, LAMBDA r : ~IsNaN(r[cTarget]))

\* train_model was called on a frame it can split: labelled rows, at least
\* two of them, and a feature column
SplitInput ==
    /\ req.kind = "train_model"
    /\ HasCol(call.df, cTarget)
    /\ Len(LabelledInput) >= 2
    /\ \E c \in Range(FEATURE_COLS) : HasCol(call.df, c)

\* the labels of the trailing fifth of the labelled rows
HeldOutLabels ==
    {LabelledInput[i][cTarget].n :
        i \in (Len(LabelledInput) - TestSize(Len(LabelledInput)) + 1)..Len(LabelledInput)}

\* C22: a train_model call on a frame it can split returns a roc_auc exactly
\* when the held-out rows carry both labels; when they carry one label the
\* call returns without a roc_auc and installs the model and the frame.
C22_RocAucIffBothClasses ==
    SplitInput
    => /\ (resp.exc = "" /\ resp.roc_auc # <<>>) <=> HeldOutLabels = {0, 1}
       /\ HeldOutLabels # {0, 1}
             => /\ resp.exc = ""
                /\ resp.roc_auc = <<>>
                /\ Trained
                /\ LAST_TRAIN_DF[1].rows = LabelledInput

\* row r on the stored feature_cols, a null read as 0.0, for each row of rows
AllOnFeatureCols(rows) == Strict([i \in 1..Len(rows) |-> OnFeatureCols(rows[i])])

\* C23: a train_model call that returns has retained exactly the rows of its
\* frame that have a label, in their order, and has fitted the classifier on
\* the leading ones of them, nulls among their features read as 0.0, all but
\* the trailing fifth that is held out.
C23_OnlyNullTargetDropped ==
    (req.kind = "train_model" /\ resp.exc = "")
    => /\ Trained
       /\ LAST_TRAIN_DF[1].rows = LabelledInput
       /\ Len(GLOBAL_MODEL[1].clf.y) = Len(LabelledInput) - TestSize(Len(LabelledInput))
       /\ GLOBAL_MODEL[1].clf.X
             = AllOnFeatureCols(SubSeq(LabelledInput, 1, Len(GLOBAL_MODEL[1].clf.y)))
       /\ \A i \in 1..Len(GLOBAL_MODEL[1].clf.y) :
             GLOBAL_MODEL[1].clf.y[i] = LabelledInput[i][cTarget].n

\* the call returned on a frame with a row without label, and the classifier
\* was fitted on a row that has a null feature
C23_Witness ==
    /\ req.kind = "train_model"
    /\ resp.exc = ""
    /\ Len(LabelledInput) < Len(call.df.rows)
    /\ \E i \in 1..Len(GLOBAL_MODEL[1].clf.y) :
          \E c \in Range(GLOBAL_MODEL[1].feature_cols) : IsNaN(LAST_TRAIN_DF[1].rows[i][c])

\* the place of column c in the canonical list
CanonicalPlace(c) == CHOOSE i \in 1..Len(FEATURE_COLS) : FEATURE_COLS[i] = c

\* C24: in every state the classifier pair and the retained frame are both
\* absent or both present; when present, the stored feature_cols is not
\* empty, holds exactly the canonical feature names that are columns of the
\* retained frame, each once, and lists them in the order of the canonical
\* list.
C24_StatePairAndFeatureCols ==
    /\ Untrained \/ Trained
    /\ Trained
         => LET fc == GLOBAL_MODEL[1].feature_cols
            IN /\ Len(fc) > 0
               /\ Range(fc) = Range(FEATURE_COLS) \cap Range(LAST_TRAIN_DF[1].cols)
               /\ \A i, j \in 1..Len(fc) :
                     i < j => CanonicalPlace(fc[i]) < CanonicalPlace(fc[j])

\* a trained state whose frame has a feature column outside the canonical
\* list next to five canonical ones, reached by a request after the train
C24_Witness ==
    /\ Trained
    /\ req.kind = "predict"
    /\ HasCol(LAST_TRAIN_DF[1], cVolZ)
    /\ Len(GLOBAL_MODEL[1].feature_cols) = 5

\* no train_model call is under way, and two of them have assigned the globals
TwoTrainsCompleted ==
    /\ \A i \in 1..MaxTrainCalls : trainers[i].pc \in {"idle", "done"}
    /\ Cardinality({i \in 1..MaxTrainCalls :
                       trainers[i].pc = "done" /\ trainers[i].model # <<>>}) >= 2

\* C25: when two overlapping train_model calls have both completed, the
\* stored classifier pair and the stored frame were assigned by the same
\* call and are the ones that call computed.
C25_OverlappingTrainsSwapTogether ==
    TwoTrainsCompleted
    => /\ modelBy = dfBy
       /\ GLOBAL_MODEL = trainers[modelBy].model
       /\ LAST_TRAIN_DF = trainers[modelBy].df

\* C26: a step taken in the Trained state ends in the Trained state, whether
\* it is a train or a predict and whether it succeeds or fails, and a predict
\* step leaves the classifier, the feature_cols and the retained frame as
\* they were.
C26_TrainedForever ==
    [][/\ Trained => Trained'
       /\ req'.kind = "predict"
             => /\ GLOBAL_MODEL' = GLOBAL_MODEL
                /\ LAST_TRAIN_DF' = LAST_TRAIN_DF]_vars

\* a train request has failed in the Trained state
C26_Witness ==
    /\ Trained
    /\ req.kind = "train"
    /\ resp.status \in {400, 500}

\* the ticker of a row of the frame add_price_features was given, under
\* either name of the column
InputTicker(r) == IF cTicker \in DOMAIN r THEN r[cTicker] ELSE r[Col("Ticker")]

TickerLocated == HasCol(call.df, cTicker) \/ HasCol(call.df, Col("Ticker"))

DateLocated == HasCol(call.df, cDate) \/ HasCol(call.df, Col("Date"))

\* a Close column is there, or some row has a value in the Close_<TICKER>
\* column of its ticker
CloseLocated ==
    \/ HasCol(call.df, cClose)
    \/ /\ TickerLocated
       /\ \E r \in Range(call.df.rows) :
             \E c \in SuffixedCloses(call.df) :
                Upper(c.sfx[1]) = Upper(InputTicker(r)) /\ ~IsNaN(r[c])

\* C30 as stated: add_price_features fails exactly when the ticker, the date
\* or the Close column cannot be located or reconstructed.
C30_FailsExactlyOnMissingAsStated ==
    call.fn = "add_price_features"
    => (~ret.ok <=> ~(TickerLocated /\ DateLocated /\ CloseLocated))

\* C30: add_price_features fails, with a ValueError, exactly when the frame
\* has no rows or the ticker, the date or the Close column cannot be located
\* or reconstructed, a Close that would be null on every row counting as
\* missing; a frame with rows, ticker, date and Close never fails for its
\* volume, whether it has no volume column or Volume_<TICKER> columns that
\* are null on every row, and then comes back without a Volume column.
C30_FailsExactlyOnMissing ==
    call.fn = "add_price_features"
    => /\ ~ret.ok <=> (IsEmpty(call.df) \/ ~(TickerLocated /\ DateLocated /\ CloseLocated))
       /\ ~ret.ok => ret.exc = "ValueError"
       /\ (ret.ok /\ ~HasVolume(call.df)
              /\ \A r \in Range(call.df.rows) :
                    \A c \in Range(call.df.cols) : c.base = "Volume" => IsNaN(r[c]))
             => ~HasCol(ret.df, cVolume)

\* the call succeeded on a frame whose Volume_<TICKER> columns are null on
\* every row
C30_Witness ==
    /\ call.fn = "add_price_features"
    /\ ret.ok
    /\ ~HasVolume(call.df)
    /\ HasCol(call.df, Sfx("Volume", <<"A">>))
    /\ ~HasCol(ret.df, cVolume)
    /\ \A o \in Returned_rows : IsNaN(o[cVolZ])

\* the last call was a fetch of one source's records for one ticker
RecordsFetched ==
    /\ call.fn \in {"fetch_newsapi_news", "fetch_mediastack_news", "_fetch_twitter_for_single"}
    /\ ret.ok

\* the text a record was scored on
RecordText(r) ==
    IF call.fn = "_fetch_twitter_for_single" THEN r[Col("text")]
    ELSE r[Col("title")] \o r[Col("description")]

\* the number of words of a lexicon that are matched in a text
Matches(lexicon, text) == Cardinality({w \in lexicon : OccursIn(w, text)})

\* (pos - neg)/(pos + neg), 0.0 without a match
LexicalScore(pos, neg) == IF pos + neg = 0 THEN Num(0) ELSE Rat(pos - neg, pos + neg)

\* C29: for the news scorer and for the social scorer, the sentiment of a
\* record is (pos - neg)/(pos + neg), pos and neg being the numbers of matches
\* of the scorer's positive and negative lexicon in the lower-cased text, and
\* 0.0 when there is no match; it lies in [-1, 1].
C29_ScoreIsLexicalRatio ==
    RecordsFetched
    => \A r \in Range(ret.df.rows) :
          /\ r[cSentiment] =
                 IF call.fn = "_fetch_twitter_for_single"
                 THEN LexicalScore(Matches(TW_POS_WORDS, RecordText(r)), Matches(TW_NEG_WORDS, RecordText(r)))
                 ELSE LexicalScore(Matches(POS_WORDS, RecordText(r)), Matches(NEG_WORDS, RecordText(r)))
          /\ r[cSentiment].n <= r[cSentiment].d
          /\ r[cSentiment].n >= -r[cSentiment].d

\* the last call was a fetch of the daily aggregates of one source
AggregatesFetched ==
    /\ call.fn \in {"fetch_news_for_tickers", "fetch_twitter_for_tickers"}
    /\ ret.ok

\* the standard deviation and the count of a row of the aggregate returned
StdOfRow(r) == r[ret.df.cols[4]]

CountOfRow(r) == r[ret.df.cols[5]]

\* C28: every row of a news or social sentiment aggregate has a non-null
\* standard deviation, which is 0.0 for a (ticker, date) group of a single
\* record.
C28_StdNeverNull ==
    AggregatesFetched
    => \A r \in Range(ret.df.rows) :
          /\ ~IsNaN(StdOfRow(r))
          /\ CountOfRow(r) = Num(1) => StdOfRow(r) = Num(0)

\* the last call was a build_training_frame that fetched from the vendors
BuiltOnWeb == call.fn = "sentiment.build_training_frame" /\ Len(call.tickers) > 0

\* the fetch of the source s for the ticker t fails: no credential, a status
\* other than 200, or no response
FetchFails(s, t) ==
    \/ ~web.key[s]
    \/ /\ web[s][t].kind \in {"status", "raise"}
       /\ s = "twitter" => RecentWindow(call.start, call.end)

\* the records a fetch of one source for one ticker gave, none when it raised
RecordsOf(out) == IF out.ok THEN out.df.rows ELSE <<>>

\* the news records of the call's tickers, ticker by ticker
NewsRecords ==
    ConcatRows(Strict([i \in 1..Len(call.tickers) |->
        Frame(RawNewsCols,
              RecordsOf(FetchNewsapiNews(web, call.tickers[i], call.start, call.end))
                  \o RecordsOf(FetchMediastackNews(web, call.tickers[i], call.start, call.end)))]))

\* the tweets of the call's tickers, ticker by ticker, with their dates
TwitterRecords ==
    LET rows == ConcatRows(Strict([i \in 1..Len(call.tickers) |->
                    Frame(RawTwCols,
                          RecordsOf(FetchTwitterForSingle(web, call.tickers[i], call.start, call.end)))]))
    IN Strict([i \in 1..Len(rows) |-> WithCell(rows[i], cDate, rows[i][Col("created_at")])])

\* the daily aggregates of records, under the columns cols
AggregatesOf(records, cols, ddof) ==
    IF Len(records) = 0 THEN Frame(cols, <<>>) ELSE DailyAggregate(records, cols, ddof)

\* C27: when a news or social fetch fails for a ticker (no credential, a
\* status other than 200, a transport error), that fetch alone counts for
\* empty: build_training_frame returns what it returns on the same price
\* frame joined with the aggregates of all the records that the fetches of
\* the other tickers and sources gave, and so succeeds whenever it succeeds
\* on the price rows.
C27_FetchFailureIsLocal ==
    (BuiltOnWeb /\ \E s \in {"newsapi", "mediastack", "twitter"}, t \in Range(call.tickers) : FetchFails(s, t))
    => ret = SentimentBuildTrainingFrame(call.df, call.start, call.end,
                                         AggregatesOf(NewsRecords, NewsCols, 1),
                                         AggregatesOf(TwitterRecords, TwCols, 0))

====
